---- MODULE Spec2Model ----
(***************************************************************************)
(* Model of the Nubox report extraction core:                              *)
(*   - ReportExtractorService.extract_multiple_reports_by_company_and_     *)
(*     account (the batch over the company x account cross product), with  *)
(*     the artifact validation / reading functions it relies on;           *)
(*   - ParameterConfigService.set_parameters_programmatic / _interactive   *)
(*     (the configuration collaborator).                                   *)
(* Indices are 0-based as in the source.  A company or an account is       *)
(* identified by its position in its list (the lists hold distinct names), *)
(* and the key "<company> - <account>" by the pair of positions.           *)
(***************************************************************************)
EXTENDS Integers, Sequences, FiniteSets, TLC

\* ------------------------------------------------------------------ bounds
\* Largest cross product (companies x accounts) explored.
MaxTargets == 4
\* Largest number of dropdown selections in one configuration call.
MaxDropdowns == 3

\* ------------------------------------------------------------- value names
None == "None"
RAISES == "raises"
TRUE_ == "True"
FALSE_ == "False"
\* what a collaborator call may do: return True, return False, raise
Outcomes == {TRUE_, FALSE_, RAISES}

\* file_path values returned by the extraction (report_extractor.py 498-513,
\* 722-726, 783, 839, 857, 861-864)
PATH == "latest_file"
NOT_FOUND == "Descarga no encontrada"
INVALID == "Archivo invalido: latest_file"
READ_ERROR == "Error de lectura: latest_file"
PARSE_ERROR == "Error de parsing: latest_file"

\* error messages of the failed results
ERR_CONFIG == "Error en configuracion de parametros"
ERR_NODATA == "No se extrajeron datos ni se detecto descarga"
ERR_NAV == "Error de navegacion - proceso interrumpido"
ERR_NAV_EXC == "Proceso interrumpido por error de navegacion"
ERR_EXC == "str(e)"

\* Row counts of the tables an artifact may hold (the empty table and the
\* 10-row table of the documented example).
RowCounts == {0, 10}

\* ------------------------------------------------------ downloaded artifact
\* line 536: the header window of _validate_excel_file, in bytes
HeaderBytes == 512
\* line 740: the header window of _is_html_excel_format, in characters
HeaderChars == 500

\* Where an occurrence of a marker ends, counted in characters and in bytes
\* from the start of the file (0: the file does not hold the marker):
\* near the start; across the end of the 500-character window of a header
\* of one-byte characters; inside the 500 characters of a header with
\* multi-byte characters but past its 512 bytes; far behind both windows.
MarkerEnds ==
    {[end_char |-> 0, end_byte |-> 0],
     [end_char |-> 60, end_byte |-> 60],
     [end_char |-> 505, end_byte |-> 505],
     [end_char |-> 495, end_byte |-> 520],
     [end_char |-> 700, end_byte |-> 700]}

\* An artifact is described by what its header holds and by what the
\* reading strategies make of its body.
\*   xmlns  : the marker xmlns:x="urn:schemas-microsoft-com:office:excel"
\*   xtag   : <x:ExcelWorkbook> or <x:ExcelWorksheets>
\*   libro  : the report title 'LIBRO MAYOR DESDE' in the first 512 bytes
\*   border : '<table border="1">' in the first 500 characters
\*   sig    : the file starts with a spreadsheet signature (OLE2 / ZIP / BIFF)
\*   html   : a generic HTML tag (<html, <!doctype, <head>, <body>, <title>)
\*            in the first 512 bytes
\*   err    : error vocabulary (error, session, timeout, expired, ...) in
\*            the first 512 bytes
\*   sep    : a CSV separator (',', ';', tab) in the first 512 bytes
\*   body   : "rows"  - the readers obtain a table (of `rows` rows)
\*            "unreadable" - no reader obtains anything
\*            "raises" - reading raises outside the guarded strategies
Files ==
    [xmlns : MarkerEnds, xtag : MarkerEnds, libro : BOOLEAN, border : BOOLEAN,
     sig : BOOLEAN, html : BOOLEAN, err : BOOLEAN, sep : BOOLEAN,
     body : {"rows", "unreadable", "raises"}, rows : RowCounts]

NoFile == [none |-> TRUE]

\* `marker in header_text` for the first 512 bytes, decoded
InHeaderBytes(m) == m.end_byte > 0 /\ m.end_byte <= HeaderBytes

\* `marker in content` for the first 500 characters
InHeaderChars(m) == m.end_char > 0 /\ m.end_char <= HeaderChars

\* lines 543-550
is_nubox_html_excel(f) ==
    InHeaderBytes(f.xmlns) \/ InHeaderBytes(f.xtag) \/ f.libro

\* _validate_excel_file: TRUE when the artifact is accepted.
_validate_excel_file(f) ==
    IF is_nubox_html_excel(f) THEN TRUE
    ELSE IF f.sig THEN TRUE
    ELSE IF f.html THEN FALSE
    ELSE IF f.err THEN FALSE
    ELSE f.sep

\* _is_html_excel_format
_is_html_excel_format(f) ==
    InHeaderChars(f.xmlns) \/ InHeaderChars(f.xtag) \/ f.border

\* _parse_html_excel: <<rows of the table, file_path>>
_parse_html_excel(f) ==
    IF f.body = "rows" THEN <<f.rows, PATH>>
    ELSE IF f.body = "unreadable" THEN <<0, PATH>>
    ELSE <<0, PARSE_ERROR>>

\* _read_excel_file: <<rows of the table, file_path>>
_read_excel_file(f) ==
    IF _is_html_excel_format(f) THEN _parse_html_excel(f)
    ELSE IF f.body = "rows" /\ f.rows > 0 THEN <<f.rows, PATH>>
    ELSE IF f.body = "raises" THEN <<0, None>>
    ELSE <<0, READ_ERROR>>

\* _find_and_process_downloaded_file on the most recent artifact d of the
\* downloads folder (NoFile when no recent file matches).
_find_and_process_downloaded_file(d) ==
    IF d = NoFile THEN <<0, NOT_FOUND>>
    ELSE IF ~_validate_excel_file(d) THEN <<0, INVALID>>
    ELSE _read_excel_file(d)

\* extract_report: <<rows, file_path>>; exceptions are turned into <<0, None>>.
extract_report(d) == _find_and_process_downloaded_file(d)

\* Every value extract_report can return.
ExtractReturns == {extract_report(d) : d \in Files \cup {NoFile}}

\* --------------------------------------------------------------- the batch
VARIABLES
    params_ok,            \* params and its 'dropdown_selections' are dicts
    selected_companies,   \* number of companies m
    selected_accounts,    \* number of accounts n
    pc,                   \* position of the batch function
    company_idx, account_idx, combination_count,
    results,              \* key -> result, the local dict (without '_summary')
    successful_extractions, failed_extractions,
    code_bound,           \* safe_combination_code has been assigned
    returned,             \* the value returned to the caller
    raised,               \* an exception reached the caller
    \* history of the collaborator calls
    configured,           \* keys whose configuration was called
    extracted,            \* key -> value returned by extract_report
    last_extract,         \* value returned by the latest extract_report
    nav_failed,           \* a navigate_to_report call returned False or raised
    abort_at              \* combination_count at which lines 332-352 ran

batch_vars ==
    <<params_ok, selected_companies, selected_accounts, pc, company_idx,
      account_idx, combination_count, results, successful_extractions,
      failed_extractions, code_bound, returned, raised, configured, extracted,
      last_extract, nav_failed, abort_at>>

\* ------------------------------------------------ the configuration service
VARIABLES
    cfg_mode,             \* "programmatic" | "interactive" | "idle"
    cfg_pc,               \* the next interaction with the parameter form
    dropdown_selections,  \* the selections still to apply, in dict order
    fecha_desde,          \* a 'Desde' date is to be set
    fecha_hasta,          \* a 'Hasta' date is to be set
    ui_log,               \* the interactions made with the form, in order
    cfg_result            \* the value returned by the call

cfg_vars ==
    <<cfg_mode, cfg_pc, dropdown_selections, fecha_desde, fecha_hasta, ui_log,
      cfg_result>>

\* ------------------------------------------------ the downloads folder
VARIABLES
    downloads,            \* the entries of ~/Downloads, in directory order
    current_time,         \* time.time() at the discovery
    find_pc,              \* "call" | "returned" | "idle"
    latest_file,          \* position in downloads of the file chosen, or 0
    find_result           \* value returned by _find_and_process_downloaded_file

find_vars == <<downloads, current_time, find_pc, latest_file, find_result>>

\* ------------------------------------------------ the artifact on disk
VARIABLES
    fs,                   \* the files on disk: path -> content
    artifact,             \* the path handed to validation and reading
    payload,              \* the content of the artifact when it was downloaded
    file_pc,              \* "validate" | "read" | "returned" | "idle"
    runs                  \* what each run over the artifact produced, in order

file_vars == <<fs, artifact, payload, file_pc, runs>>

\* ------------------------------------------------ the HTML table parser
VARIABLES
    tbl_pc,               \* "find_table" | "scan" | "returned" | "idle"
    headers,              \* number of cells of the header row, 0: not found
    data_rows,            \* the rows accepted so far
    scanned,              \* number of <tr> rows looked at
    table                 \* the value returned by _parse_html_excel

table_vars == <<tbl_pc, headers, data_rows, scanned, table>>

\* ------------------------------------------------ the cleaning of a table
VARIABLES
    clean_pc,             \* "call" | "returned" | "idle"
    raw_df,               \* the table handed to _clean_accounting_data
    cleaned_df            \* the table it returns

clean_vars == <<clean_pc, raw_df, cleaned_df>>

\* ------------------------------------------------ the document preparation
VARIABLES
    doc_pc,               \* "call" | "returned" | "raised" | "idle"
    doc_df,               \* the table handed to _prepare_report_document
    accounting_entries,   \* the movements made so far
    document              \* the document it returns

doc_vars == <<doc_pc, doc_df, accounting_entries, document>>

\* ------------------------------------------------ the choice of date ranges
VARIABLES
    date_pc,              \* "start" | "generating" | "returned" | "standard" | "idle"
    date_desde,           \* fecha_desde of the call
    date_hasta,           \* fecha_hasta of the call
    use_monthly,          \* what should_use_monthly_extraction answered, or None
    current_date,         \* the loop variable of generate_monthly_date_ranges
    monthly_ranges        \* the ranges generated so far, then the list returned

date_vars == <<date_pc, date_desde, date_hasta, use_monthly, current_date, monthly_ranges>>

\* ------------------------------------------------ downloads of a batch
VARIABLES
    dl_pc,                \* "generate" | "discover" | "done" | "idle"
    dl_folder,            \* the entries of the downloads folder, as created
    dl_clock,             \* time.time(), in seconds
    dl_target,            \* the position of the account being processed
    handed                \* per account: the entry discovery chose, 0: none

dl_vars == <<dl_pc, dl_folder, dl_clock, dl_target, handed>>

\* ------------------------------------------------ the batch by account
VARIABLES
    acct_pc,              \* "loop" | "extract" | "click_mayor" | "navigate" | "recover" | "break" | "done" | "idle"
    accounts,             \* len(selected_accounts)
    acct_i,               \* the loop index i of line 88
    acct_results,         \* account -> result, the local dict (without '_summary')
    acct_successful,      \* successful_extractions
    acct_failed,          \* failed_extractions
    acct_calls,           \* the collaborator calls made, in order
    acct_returned,        \* the value returned to the caller
    acct_params,          \* the caller's params dict: key -> object reference
    heap,                 \* the dict objects: reference -> content
    heap_at_call          \* heap when the batch was called

acct_vars == <<acct_pc, accounts, acct_i, acct_results, acct_successful, acct_failed, acct_calls, acct_returned, acct_params, heap, heap_at_call>>

\* ------------------------------------------------ one row of the HTML table
VARIABLES
    current_row           \* the <tr> row handed to the loop body, when it is given

row_vars == <<current_row>>

\* ------------------------------------------------ the results page
VARIABLES
    page_pc,              \* "extract" | "show" | "shown" | "idle"
    companies_chosen,     \* selected_companies of the page: a set of names
    accounts_chosen,      \* selected_accounts of the page: a set of names
    result,               \* what extract_report_process returned
    successful_results,   \* the keys the page lists as successful
    failed_results        \* the keys the page lists as failed

page_vars == <<page_pc, companies_chosen, accounts_chosen, result, successful_results, failed_results>>

\* the state of the file-level functions
fn_vars == <<find_vars, file_vars, table_vars, clean_vars, doc_vars, date_vars, dl_vars, acct_vars, row_vars, page_vars>>

\* the variables a call of one function leaves alone
others_find == <<batch_vars, cfg_vars, file_vars, table_vars, clean_vars, doc_vars, date_vars, dl_vars, acct_vars, row_vars, page_vars>>
others_file == <<batch_vars, cfg_vars, find_vars, table_vars, clean_vars, doc_vars, date_vars, dl_vars, acct_vars, row_vars, page_vars>>
others_table == <<batch_vars, cfg_vars, find_vars, file_vars, clean_vars, doc_vars, date_vars, dl_vars, acct_vars, row_vars, page_vars>>
others_clean == <<batch_vars, cfg_vars, find_vars, file_vars, table_vars, doc_vars, date_vars, dl_vars, acct_vars, row_vars, page_vars>>
others_doc == <<batch_vars, cfg_vars, find_vars, file_vars, table_vars, clean_vars, date_vars, dl_vars, acct_vars, row_vars, page_vars>>
others_date == <<batch_vars, cfg_vars, find_vars, file_vars, table_vars, clean_vars, doc_vars, dl_vars, acct_vars, row_vars, page_vars>>
others_dl == <<batch_vars, cfg_vars, find_vars, file_vars, table_vars, clean_vars, doc_vars, date_vars, acct_vars, row_vars, page_vars>>
others_acct == <<batch_vars, cfg_vars, find_vars, file_vars, table_vars, clean_vars, doc_vars, date_vars, dl_vars, row_vars, page_vars>>
others_row == <<batch_vars, cfg_vars, find_vars, file_vars, table_vars, clean_vars, doc_vars, date_vars, dl_vars, acct_vars, page_vars>>
others_page == <<batch_vars, cfg_vars, find_vars, file_vars, table_vars, clean_vars, doc_vars, date_vars, dl_vars, acct_vars, row_vars>>

vars == <<batch_vars, cfg_vars, fn_vars>>

total_combinations == selected_companies * selected_accounts

AllKeys ==
    {<<c, a>> : c \in 0..(selected_companies - 1), a \in 0..(selected_accounts - 1)}

combination_key == <<company_idx, account_idx>>

\* position of a key in the cross product, 1-based like combination_count
Ordinal(k) == k[1] * selected_accounts + k[2] + 1

Put(r, k, v) == [x \in (DOMAIN r) \cup {k} |-> IF x = k THEN v ELSE r[x]]

EmptyMap == [x \in {} |-> None]

\* nothing returned yet / no extraction made for the current combination
NotReturned == [none |-> TRUE]
NoExtract == <<>>

\* _create_failed_combination_result
_create_failed_combination_result(error_message) ==
    [success |-> FALSE, error |-> error_message, data |-> 0,
     file_path |-> None, rows_count |-> 0]

\* line 296: the test that records the combination as extracted
RecordsSuccessDataOnly(df, file_path) == df > 0

RecordsSuccess(df, file_path) ==
    df > 0 \/ (file_path # None /\ file_path # NOT_FOUND)

\* lines 299-309
SuccessResult(rows, file_path) ==
    [success |-> TRUE, error |-> None, data |-> rows,
     file_path |-> file_path, rows_count |-> rows]

\* lines 296-319: the result recorded for what extract_report returned
RecordOf(report_data) ==
    IF RecordsSuccess(report_data[1], report_data[2])
    THEN SuccessResult(report_data[1], report_data[2])
    ELSE _create_failed_combination_result(ERR_NODATA)

\* _mark_remaining_combinations_as_failed
MarkRemainingSameStart(r, start_company_idx, start_account_idx, error_message) ==
    LET marked == {k \in AllKeys :
                      /\ k[1] >= start_company_idx
                      /\ k[2] >= start_account_idx}
    IN  [x \in (DOMAIN r) \cup marked |->
            IF x \in marked THEN _create_failed_combination_result(error_message)
            ELSE r[x]]

_mark_remaining_combinations_as_failed(r, start_company_idx, start_account_idx, error_message) ==
    LET marked == {k \in AllKeys :
                      /\ k[1] >= start_company_idx
                      /\ k[2] >= (IF k[1] = start_company_idx
                                  THEN start_account_idx ELSE 0)}
    IN  [x \in (DOMAIN r) \cup marked |->
            IF x \in marked THEN _create_failed_combination_result(error_message)
            ELSE r[x]]

\* lines 384-391; success_rate in whole percent
Summary(s, f) ==
    [total_combinations |-> total_combinations,
     successful_extractions |-> s,
     failed_extractions |-> f,
     success_rate |-> IF total_combinations > 0
                      THEN (s * 100) \div total_combinations ELSE 0]

\* lines 397-407
FallbackSummary ==
    [total_combinations |-> total_combinations,
     successful_extractions |-> 0,
     failed_extractions |-> total_combinations,
     success_rate |-> 0]

\* lines 376-378: the test that leaves the company loop
LeavesCompanyLoop(count, f) == count + f >= total_combinations

\* Where control goes when the body of the inner loop ends.
\*   how = "next"  : end of the body or `continue`
\*   how = "break" : `break` out of the account loop
AfterBodyCompaniesInside(how, count, f) ==
    IF how = "next" /\ company_idx + 1 < selected_companies
    THEN [pc |-> "config", company_idx |-> company_idx + 1,
          account_idx |-> account_idx]
    ELSE IF LeavesCompanyLoop(count, f) \/ account_idx + 1 >= selected_accounts
    THEN [pc |-> "done", company_idx |-> company_idx, account_idx |-> account_idx]
    ELSE [pc |-> "config", company_idx |-> 0, account_idx |-> account_idx + 1]

AfterBody(how, count, f) ==
    IF how = "next" /\ account_idx + 1 < selected_accounts
    THEN [pc |-> "config", company_idx |-> company_idx,
          account_idx |-> account_idx + 1]
    ELSE IF LeavesCompanyLoop(count, f) \/ company_idx + 1 >= selected_companies
    THEN [pc |-> "done", company_idx |-> company_idx, account_idx |-> account_idx]
    ELSE [pc |-> "config", company_idx |-> company_idx + 1, account_idx |-> 0]

\* Leave the body of the inner loop with results r and counters s, f.
Leave(how, count, r, s, f) ==
    LET pos == AfterBody(how, count, f)
    IN  /\ pc' = pos.pc
        /\ company_idx' = pos.company_idx
        /\ account_idx' = pos.account_idx
        /\ results' = r
        /\ successful_extractions' = s
        /\ failed_extractions' = f
        /\ returned' = IF pos.pc = "done"
                       THEN [entries |-> r, summary |-> Summary(s, f)]
                       ELSE returned
        /\ raised' = raised

\* lines 395-408: the handler of the whole function
OuterExceptReraise ==
    /\ pc' = "done"
    /\ returned' = returned
    /\ raised' = TRUE
    /\ UNCHANGED <<company_idx, account_idx, results, successful_extractions,
                   failed_extractions>>

OuterExcept ==
    /\ pc' = "done"
    /\ returned' = [entries |-> EmptyMap, summary |-> FallbackSummary]
    /\ raised' = FALSE
    /\ UNCHANGED <<company_idx, account_idx, results, successful_extractions,
                   failed_extractions>>

\* lines 354-362: the handler of one combination, up to the recovery call
ExceptHandler(count, bound) ==
    IF ~bound
    THEN OuterExcept        \* safe_combination_code is unbound: the handler raises
    ELSE LET r == Put(results, combination_key,
                      _create_failed_combination_result(ERR_EXC))
             f == failed_extractions + 1
         IN  IF count < total_combinations
             THEN /\ pc' = "recover"
                  /\ results' = r
                  /\ failed_extractions' = f
                  /\ UNCHANGED <<company_idx, account_idx,
                                 successful_extractions, returned, raised>>
             ELSE Leave("next", count, r, successful_extractions, f)

\* no discovery is under way
FindIdle ==
    /\ downloads = <<>>
    /\ current_time = 0
    /\ find_pc = "idle"
    /\ latest_file = 0
    /\ find_result = NoExtract

\* no artifact is being processed
FileIdle ==
    /\ fs = EmptyMap
    /\ artifact = <<>>
    /\ payload = NoFile
    /\ file_pc = "idle"
    /\ runs = <<>>

\* no table, no return value
NoTable == [none |-> TRUE]

\* no HTML table is being parsed
TableIdle ==
    /\ tbl_pc = "idle"
    /\ headers = 0
    /\ data_rows = <<>>
    /\ scanned = 0
    /\ table = NoTable

\* no table is being cleaned
CleanIdle ==
    /\ clean_pc = "idle"
    /\ raw_df = NoTable
    /\ cleaned_df = NoTable

\* no document is being prepared
DocIdle ==
    /\ doc_pc = "idle"
    /\ doc_df = NoTable
    /\ accounting_entries = <<>>
    /\ document = NoTable

\* no date range is being examined
DateIdle ==
    /\ date_pc = "idle"
    /\ date_desde = NoTable
    /\ date_hasta = NoTable
    /\ use_monthly = None
    /\ current_date = NoTable
    /\ monthly_ranges = <<>>

\* no batch is downloading
DownloadsIdle ==
    /\ dl_pc = "idle"
    /\ dl_folder = <<>>
    /\ dl_clock = 0
    /\ dl_target = 0
    /\ handed = <<>>

\* no batch by account is under way
AccountsIdle ==
    /\ acct_pc = "idle"
    /\ accounts = 0
    /\ acct_i = 0
    /\ acct_results = EmptyMap
    /\ acct_successful = 0
    /\ acct_failed = 0
    /\ acct_calls = <<>>
    /\ acct_returned = NotReturned
    /\ acct_params = NoTable
    /\ heap = EmptyMap
    /\ heap_at_call = EmptyMap

\* no row is given to the loop body
RowIdle == current_row = NoTable

\* no page is being rendered
PageIdle ==
    /\ page_pc = "idle"
    /\ companies_chosen = {}
    /\ accounts_chosen = {}
    /\ result = NoTable
    /\ successful_results = {}
    /\ failed_results = {}

\* nothing is under way in the application layer
AppIdle == DateIdle /\ DownloadsIdle /\ AccountsIdle /\ RowIdle /\ PageIdle

FnIdle == FindIdle /\ FileIdle /\ TableIdle /\ CleanIdle /\ DocIdle /\ AppIdle

\* no configuration call is under way
CfgIdle ==
    /\ cfg_mode = "idle"
    /\ cfg_pc = "idle"
    /\ dropdown_selections = <<>>
    /\ fecha_desde = FALSE
    /\ fecha_hasta = FALSE
    /\ ui_log = <<>>
    /\ cfg_result = None

Init ==
    /\ CfgIdle
    /\ FnIdle
    /\ params_ok \in BOOLEAN
    /\ selected_companies \in 0..MaxTargets
    /\ selected_accounts \in 0..MaxTargets
    /\ selected_companies * selected_accounts <= MaxTargets
    /\ pc = "start"
    /\ company_idx = 0
    /\ account_idx = 0
    /\ combination_count = 0
    /\ results = EmptyMap
    /\ successful_extractions = 0
    /\ failed_extractions = 0
    /\ code_bound = FALSE
    /\ returned = NotReturned
    /\ raised = FALSE
    /\ configured = {}
    /\ extracted = EmptyMap
    /\ last_extract = NoExtract
    /\ nav_failed = FALSE
    /\ abort_at = 0

\* lines 236-249: entry; with an empty cross product no body runs
Start ==
    /\ pc = "start"
    /\ IF total_combinations = 0
       THEN /\ pc' = "done"
            /\ returned' = [entries |-> results, summary |-> Summary(0, 0)]
       ELSE /\ pc' = "config"
            /\ returned' = returned
    /\ UNCHANGED <<cfg_vars, fn_vars>>
    /\ UNCHANGED <<params_ok, selected_companies, selected_accounts, company_idx,
                   account_idx, combination_count, results,
                   successful_extractions, failed_extractions, code_bound,
                   raised, configured, extracted, last_extract, nav_failed,
                   abort_at>>

\* lines 250-279: one combination up to the outcome of the configuration call
Configure ==
    /\ pc = "config"
    /\ combination_count' = combination_count + 1
    /\ last_extract' = NoExtract
    /\ UNCHANGED <<cfg_vars, fn_vars>>
    /\ UNCHANGED <<params_ok, selected_companies, selected_accounts, extracted,
                   nav_failed, abort_at>>
    /\ IF ~params_ok
       THEN \* lines 257-260 raise before the configuration is called
            /\ ExceptHandler(combination_count + 1, code_bound)
            /\ UNCHANGED <<code_bound, configured>>
       ELSE /\ code_bound' = TRUE
            /\ configured' = configured \cup {combination_key}
            /\ \E config_success \in Outcomes :
                 CASE config_success = TRUE_ ->
                        /\ pc' = "extract"
                        /\ UNCHANGED <<company_idx, account_idx, results,
                                       successful_extractions,
                                       failed_extractions, returned, raised>>
                   [] config_success = FALSE_ ->
                        Leave("next", combination_count + 1,
                              Put(results, combination_key,
                                  _create_failed_combination_result(ERR_CONFIG)),
                              successful_extractions, failed_extractions + 1)
                   [] OTHER -> ExceptHandler(combination_count + 1, TRUE)

\* lines 281-321: the extraction of the configured combination and the
\* recording of its result
Extract ==
    /\ UNCHANGED <<cfg_vars, fn_vars>>
    /\ pc = "extract"
    /\ \E report_data \in ExtractReturns :
         LET df == report_data[1]
             file_path == report_data[2]
             ok == RecordsSuccess(df, file_path)
             r == Put(results, combination_key, RecordOf(report_data))
             s == IF ok THEN successful_extractions + 1
                  ELSE successful_extractions
             f == IF ok THEN failed_extractions ELSE failed_extractions + 1
         IN  /\ last_extract' = report_data
             /\ extracted' = Put(extracted, combination_key, report_data)
             /\ IF combination_count < total_combinations
                THEN /\ pc' = "click_mayor"
                     /\ results' = r
                     /\ successful_extractions' = s
                     /\ failed_extractions' = f
                     /\ UNCHANGED <<company_idx, account_idx, returned, raised>>
                ELSE Leave("next", combination_count, r, s, f)
    /\ UNCHANGED <<params_ok, selected_companies, selected_accounts,
                   combination_count, code_bound, configured, nav_failed,
                   abort_at>>

\* lines 326-328: click_mayor_link between two combinations
ClickMayor ==
    /\ UNCHANGED <<cfg_vars, fn_vars>>
    /\ pc = "click_mayor"
    /\ \E mayor_click_success \in Outcomes :
         CASE mayor_click_success = TRUE_ ->
                Leave("next", combination_count, results,
                      successful_extractions, failed_extractions)
           [] mayor_click_success = FALSE_ ->
                /\ pc' = "navigate"
                /\ UNCHANGED <<company_idx, account_idx, results,
                               successful_extractions, failed_extractions,
                               returned, raised>>
           [] OTHER -> ExceptHandler(combination_count, code_bound)
    /\ UNCHANGED <<params_ok, selected_companies, selected_accounts,
                   combination_count, code_bound, configured, extracted,
                   last_extract, nav_failed, abort_at>>

\* lines 330-352: the alternative navigation and, when it fails too, the
\* marking of the remaining combinations
Navigate ==
    /\ UNCHANGED <<cfg_vars, fn_vars>>
    /\ pc = "navigate"
    /\ \E nav_success \in Outcomes :
         CASE nav_success = TRUE_ ->
                /\ Leave("next", combination_count, results,
                         successful_extractions, failed_extractions)
                /\ UNCHANGED <<nav_failed, abort_at>>
           [] nav_success = FALSE_ ->
                LET remaining_combinations ==
                        total_combinations - combination_count
                    wraps == account_idx + 1 >= selected_accounts
                    current_company_idx ==
                        IF wraps THEN company_idx + 1 ELSE company_idx
                    current_account_idx ==
                        IF wraps THEN 0 ELSE account_idx + 1
                IN  /\ Leave("break", combination_count,
                             _mark_remaining_combinations_as_failed(
                                 results, current_company_idx,
                                 current_account_idx, ERR_NAV),
                             successful_extractions,
                             failed_extractions + remaining_combinations)
                    /\ nav_failed' = TRUE
                    /\ abort_at' = combination_count
           [] OTHER ->
                /\ ExceptHandler(combination_count, code_bound)
                /\ nav_failed' = TRUE
                /\ UNCHANGED abort_at
    /\ UNCHANGED <<params_ok, selected_companies, selected_accounts,
                   combination_count, code_bound, configured, extracted,
                   last_extract>>

\* lines 362-374: the recovery navigation of the handler; its returned value
\* is not looked at, only an exception ends the batch
Recover ==
    /\ UNCHANGED <<cfg_vars, fn_vars>>
    /\ pc = "recover"
    /\ \E nav \in Outcomes :
         IF nav = RAISES
         THEN /\ Leave("break", combination_count,
                       _mark_remaining_combinations_as_failed(
                           results, company_idx, account_idx + 1, ERR_NAV_EXC),
                       successful_extractions,
                       failed_extractions
                           + (total_combinations - combination_count))
              /\ nav_failed' = TRUE
         ELSE /\ Leave("next", combination_count, results,
                       successful_extractions, failed_extractions)
              /\ nav_failed' = (nav_failed \/ nav = FALSE_)
    /\ UNCHANGED <<params_ok, selected_companies, selected_accounts,
                   combination_count, code_bound, configured, extracted,
                   last_extract, abort_at>>

\* ------------------------------------------ ParameterConfigService actions
DropdownNames ==
    {"Empresa", "Cuenta Contable", "Formato de Salida", "Tipo de Reporte"}

\* the dicts of at most MaxDropdowns selections, as the sequence of their keys
SelectionDicts ==
    {q \in UNION {[1..k -> DropdownNames] : k \in 0..MaxDropdowns} :
        \A i, j \in DOMAIN q : i # j => q[i] # q[j]}

\* The order in which a call works on the form: set_parameters_programmatic
\* lines 87-103 (dropdowns, 'Desde', 'Hasta', generate) and
\* set_parameters_interactive lines 53-65 (dropdowns, 'Desde', confirmation,
\* generate).
StageOrderDatesFirst == <<"desde", "hasta", "dropdown", "confirm", "generate">>

StageOrder == <<"dropdown", "desde", "hasta", "confirm", "generate">>

\* whether a stage has something to do in this call
Wanted(stage, pending) ==
    CASE stage = "dropdown" -> pending # <<>>
      [] stage = "desde" -> fecha_desde
      [] stage = "hasta" -> fecha_hasta /\ cfg_mode = "programmatic"
      [] stage = "confirm" -> cfg_mode = "interactive"
      [] OTHER -> TRUE

StageIndex(stage) == CHOOSE i \in DOMAIN StageOrder : StageOrder[i] = stage

\* the first stage at or after position i that has something to do
RECURSIVE FirstWanted(_, _)
FirstWanted(i, pending) ==
    IF i >= Len(StageOrder) THEN StageOrder[Len(StageOrder)]
    ELSE IF Wanted(StageOrder[i], pending) THEN StageOrder[i]
    ELSE FirstWanted(i + 1, pending)

Event(kind, name, applied) == [kind |-> kind, name |-> name, applied |-> applied]

BatchIdle ==
    /\ params_ok = TRUE
    /\ selected_companies = 0
    /\ selected_accounts = 0
    /\ pc = "idle"
    /\ company_idx = 0
    /\ account_idx = 0
    /\ combination_count = 0
    /\ results = EmptyMap
    /\ successful_extractions = 0
    /\ failed_extractions = 0
    /\ code_bound = FALSE
    /\ returned = NotReturned
    /\ raised = FALSE
    /\ configured = {}
    /\ extracted = EmptyMap
    /\ last_extract = NoExtract
    /\ nav_failed = FALSE
    /\ abort_at = 0

\* a call of set_parameters_programmatic(params) or set_parameters_interactive
InitCfg ==
    /\ BatchIdle
    /\ FnIdle
    /\ cfg_mode \in {"programmatic", "interactive"}
    /\ cfg_pc = "call"
    /\ dropdown_selections \in SelectionDicts
    /\ fecha_desde \in BOOLEAN
    /\ fecha_hasta \in BOOLEAN
    /\ ui_log = <<>>
    /\ cfg_result = None

\* lines 81-89 / 41-53: entry, up to the first interaction with the form
CfgEnter ==
    /\ cfg_pc = "call"
    /\ cfg_pc' = FirstWanted(1, dropdown_selections)
    /\ UNCHANGED <<cfg_mode, dropdown_selections, fecha_desde, fecha_hasta,
                   ui_log, cfg_result>>
    /\ UNCHANGED <<batch_vars, fn_vars>>

\* _configure_dropdowns_programmatic lines 237-242 (and lines 184-222 of the
\* interactive variant): one selection; its outcome is only logged
SetDropdown ==
    /\ cfg_pc = "dropdown"
    /\ \E success \in BOOLEAN :
         ui_log' = Append(ui_log,
                          Event("dropdown", Head(dropdown_selections), success))
    /\ dropdown_selections' = Tail(dropdown_selections)
    /\ cfg_pc' = IF Tail(dropdown_selections) # <<>> THEN "dropdown"
                 ELSE FirstWanted(StageIndex("dropdown") + 1, <<>>)
    /\ UNCHANGED <<cfg_mode, fecha_desde, fecha_hasta, cfg_result>>
    /\ UNCHANGED <<batch_vars, fn_vars>>

\* _set_date_field_robust lines 482-516: an exception is logged and swallowed
SetDate ==
    /\ cfg_pc \in {"desde", "hasta"}
    /\ \E applied \in BOOLEAN :
         ui_log' = Append(ui_log, Event(cfg_pc, cfg_pc, applied))
    /\ cfg_pc' = FirstWanted(StageIndex(cfg_pc) + 1, dropdown_selections)
    /\ UNCHANGED <<cfg_mode, dropdown_selections, fecha_desde, fecha_hasta,
                   cfg_result>>
    /\ UNCHANGED <<batch_vars, fn_vars>>

\* _confirm_report_generation lines 518-534 and lines 61-62
Confirm ==
    /\ cfg_pc = "confirm"
    /\ \E confirmacion \in BOOLEAN :
         IF confirmacion
         THEN /\ cfg_pc' = FirstWanted(StageIndex("confirm") + 1,
                                       dropdown_selections)
              /\ cfg_result' = cfg_result
         ELSE /\ cfg_pc' = "returned"
              /\ cfg_result' = FALSE_
    /\ UNCHANGED <<cfg_mode, dropdown_selections, fecha_desde, fecha_hasta,
                   ui_log>>
    /\ UNCHANGED <<batch_vars, fn_vars>>

\* _generate_report lines 536-613: the value returned is the call's result
Generate ==
    /\ cfg_pc = "generate"
    /\ \E button \in {"clicked", "not_found", "click_raises"} :
         /\ ui_log' = IF button = "not_found" THEN ui_log
                      ELSE Append(ui_log,
                                  Event("generate", "BotonAceptar",
                                        button = "clicked"))
         /\ cfg_result' = IF button = "clicked" THEN TRUE_ ELSE FALSE_
    /\ cfg_pc' = "returned"
    /\ UNCHANGED <<cfg_mode, dropdown_selections, fecha_desde, fecha_hasta>>
    /\ UNCHANGED <<batch_vars, fn_vars>>

NextCfg ==
    \/ CfgEnter
    \/ SetDropdown
    \/ SetDate
    \/ Confirm
    \/ Generate

SpecCfg == InitCfg /\ [][NextCfg]_vars

\* ------------------------------------------------- artifact discovery
\* line 486: a download is recent when it is younger than this (seconds)
RecentSeconds == 120
\* Largest number of entries of the downloads folder.
MaxFiles == 3

\* creation times of the entries and times of the discovery, chosen so that
\* ages of 119, 120 and 121 seconds occur
CreationTimes == {0, 1, 60, 120}
DiscoveryTimes == {120, 121, 180}

\* an entry of the folder: whether its name matches '*.xls*', and
\* os.path.getctime of it
DirEntries == [xls : BOOLEAN, ctime : CreationTimes]

Folders == UNION {[1..n -> DirEntries] : n \in 0..MaxFiles}

\* glob.glob(excel_pattern): the positions of the matching entries
glob(folder) ==
    SelectSeq([i \in 1..Len(folder) |-> i], LAMBDA i : folder[i].xls)

\* line 486
IsRecentInclusive(file_time, now) == now - file_time <= RecentSeconds

IsRecent(file_time, now) == now - file_time < RecentSeconds

\* lines 482-487
recent_files(folder, now) ==
    SelectSeq(glob(folder), LAMBDA i : IsRecent(folder[i].ctime, now))

\* line 491: list.sort(key = creation time, reverse = True), a stable sort
RECURSIVE InsertByTimeDesc(_, _, _)
InsertByTimeDesc(folder, sorted, i) ==
    IF sorted = <<>> THEN <<i>>
    ELSE IF folder[Head(sorted)].ctime >= folder[i].ctime
    THEN <<Head(sorted)>> \o InsertByTimeDesc(folder, Tail(sorted), i)
    ELSE <<i>> \o sorted

RECURSIVE SortByTimeDesc(_, _)
SortByTimeDesc(folder, q) ==
    IF q = <<>> THEN <<>>
    ELSE InsertByTimeDesc(folder,
                          SortByTimeDesc(folder, SubSeq(q, 1, Len(q) - 1)),
                          q[Len(q)])

\* what validation and reading can return for a file that was found
ProcessedReturns == {_find_and_process_downloaded_file(d) : d \in Files}

\* a call of _find_and_process_downloaded_file; the folder does not change
\* during the call
InitFind ==
    /\ BatchIdle
    /\ CfgIdle
    /\ AppIdle
    /\ FileIdle
    /\ TableIdle
    /\ CleanIdle
    /\ DocIdle
    /\ downloads \in Folders
    /\ current_time \in DiscoveryTimes
    /\ find_pc = "call"
    /\ latest_file = 0
    /\ find_result = NoExtract

\* lines 475-509; latest_file = 0 when no file is chosen
Find ==
    /\ find_pc = "call"
    /\ find_pc' = "returned"
    /\ LET recent == recent_files(downloads, current_time)
       IN  IF recent # <<>>
           THEN /\ latest_file' = Head(SortByTimeDesc(downloads, recent))
                /\ \E report \in ProcessedReturns : find_result' = report
           ELSE /\ latest_file' = 0
                /\ find_result' = <<0, NOT_FOUND>>
    /\ UNCHANGED <<downloads, current_time>>
    /\ UNCHANGED others_find

NextFind == Find

SpecFind == InitFind /\ [][NextFind]_vars

\* --------------------------------------- validation and reading of a file
\* Largest number of runs made over the same artifact path.
MaxRuns == 2

\* the downloaded artifact's path: folder and file name
ArtifactPath == <<"Downloads", "LIBRO MAYOR.xls">>

\* line 595: error_file_path = file_path + "_error_content.html"
error_file_path(file_path) == file_path \o <<"_error_content.html">>

\* The reason logged for a rejection (lines 574, 615, 621 and 721);
\* None when the artifact is accepted.
REASON_HTML == "HTML generico en lugar de datos Excel"
REASON_VOCABULARY == "Indicadores de error encontrados"
REASON_SIGNATURE == "Archivo sin firma Excel valida"
REASON_UNREADABLE == "No se pudo leer el archivo con ningun metodo"

ValidationReason(f) ==
    IF is_nubox_html_excel(f) \/ f.sig THEN None
    ELSE IF f.html THEN REASON_HTML
    ELSE IF f.err THEN REASON_VOCABULARY
    ELSE IF f.sep THEN None
    ELSE REASON_SIGNATURE

\* lines 571-600: the rejection that dumps the content next to the artifact
DumpsContent(f) == ~is_nubox_html_excel(f) /\ ~f.sig /\ f.html

\* lines 595-597: the dump is written to error_file_path
WriteDumpOverArtifact(files, file_path, content) ==
    [x \in (DOMAIN files \ {file_path}) \cup {error_file_path(file_path)} |->
        IF x = error_file_path(file_path) THEN content ELSE files[x]]

WriteDump(files, file_path, content) ==
    Put(files, error_file_path(file_path), content)

\* which reader _read_excel_file hands the file to (lines 653-655)
ParserBorderOnly(f) == IF f.border THEN "html" ELSE "engines"

Parser(f) == IF _is_html_excel_format(f) THEN "html" ELSE "engines"

\* what one run over the artifact produced
Run(valid, reason, html_excel, parser, report) ==
    [valid |-> valid, reason |-> reason, html_excel |-> html_excel,
     parser |-> parser, report |-> report]

\* a downloaded artifact about to be validated and read (lines 495-505)
InitFile ==
    /\ BatchIdle
    /\ CfgIdle
    /\ AppIdle
    /\ FindIdle
    /\ TableIdle
    /\ CleanIdle
    /\ DocIdle
    /\ payload \in Files
    /\ artifact = ArtifactPath
    /\ fs = Put(EmptyMap, artifact, payload)
    /\ file_pc = "validate"
    /\ runs = <<>>

\* _validate_excel_file(latest_file) and lines 495-498
ValidateFile ==
    /\ file_pc = "validate"
    /\ LET f == fs[artifact]
       IN  /\ IF DumpsContent(f)
              THEN \E written \in BOOLEAN :
                     fs' = IF written THEN WriteDump(fs, artifact, f) ELSE fs
              ELSE fs' = fs
           /\ IF _validate_excel_file(f)
              THEN /\ file_pc' = "read"
                   /\ runs' = runs
              ELSE /\ file_pc' = "returned"
                   /\ runs' = Append(runs,
                                     Run(FALSE, ValidationReason(f), FALSE,
                                         "none", <<0, INVALID>>))
    /\ UNCHANGED <<artifact, payload>>
    /\ UNCHANGED others_file

\* _read_excel_file(latest_file)
ReadFile ==
    /\ file_pc = "read"
    /\ LET f == fs[artifact]
           report == _read_excel_file(f)
       IN  runs' = Append(runs,
                          Run(TRUE,
                              IF report[2] = READ_ERROR
                              THEN REASON_UNREADABLE ELSE None,
                              _is_html_excel_format(f), Parser(f), report))
    /\ file_pc' = "returned"
    /\ UNCHANGED <<fs, artifact, payload>>
    /\ UNCHANGED others_file

\* the same path is validated and read once more
RunAgain ==
    /\ file_pc = "returned"
    /\ Len(runs) < MaxRuns
    /\ file_pc' = "validate"
    /\ UNCHANGED <<fs, artifact, payload, runs>>
    /\ UNCHANGED others_file

NextFile ==
    \/ ValidateFile
    \/ ReadFile
    \/ RunAgain

SpecFile == InitFile /\ [][NextFile]_vars

\* ------------------------------------------- _parse_html_excel, row by row
\* Largest number of <tr> rows of the HTML table.
MaxTableRows == 4
\* line 810: a header row has more cells than this
MinHeaderCells == 5
\* line 843: at most this many column names are kept
MaxColumnsKept == 10
\* line 876: a data row has at least this many cells
MinRowCells == 3

\* numbers of <td> cells of a row
CellCounts == {2, 6, 7, 11, 12}

\* what the first cell of a row holds: a date such as '31/01/2025', nothing,
\* a text that starts with 'TOTAL', any other text
FirstCells == {"date", "", "TOTAL", "text"}

\* A <tr> row of the table:
\*   n           : number of its cells
\*   header_word : one of its cells is FECHA, COMPROBANTE, GLOSA, DEBE, HABER
\*                 or SALDO
\*   first       : its first cell
\*   rut         : its third cell starts like a RUT (digits, '-', digit or k)
\*   marker      : its text holds 'ACUMULACION ANTERIOR' or, behind the first
\*                 cell, 'TOTAL'
HtmlRows ==
    [n : CellCounts, header_word : BOOLEAN, first : FirstCells,
     rut : BOOLEAN, marker : BOOLEAN]

header_found == headers > 0

\* lines 810-818: the row is taken as the header row
IsHeaderRow(row) ==
    ~header_found /\ row.n > MinHeaderCells /\ row.header_word

\* _is_valid_data_row
_is_valid_data_row(row) ==
    IF row.n < MinRowCells THEN FALSE
    ELSE IF row.first = "date" THEN TRUE
    ELSE IF row.rut THEN TRUE
    ELSE row.marker \/ row.first = "TOTAL"

\* line 830
FirstCellAccepted(row) == row.first # "" /\ row.first # "TOTAL"

\* lines 821-833: the row is appended to data_rows
IsDataRow(row) ==
    /\ header_found
    /\ row.n >= headers
    /\ FirstCellAccepted(row)
    /\ _is_valid_data_row(row)

\* line 833: cell_texts[:len(headers)]; `cells` remembers the cells the row had
KeepAllCells(row, k) ==
    [n |-> row.n, cells |-> row.n, first |-> row.first, rut |-> row.rut,
     marker |-> row.marker]

Keep(row, k) ==
    [n |-> IF row.n > k THEN k ELSE row.n, cells |-> row.n,
     first |-> row.first, rut |-> row.rut, marker |-> row.marker]

\* lines 843-844
KeptColumns(k) == IF k > MaxColumnsKept THEN MaxColumnsKept ELSE k

\* the widest of the rows
RECURSIVE Widest(_)
Widest(rows) ==
    IF rows = <<>> THEN 0
    ELSE LET w == Widest(Tail(rows))
         IN  IF Head(rows).n > w THEN Head(rows).n ELSE w

\* line 846: pd.DataFrame(data_rows, columns = headers) raises when the
\* widest row does not have len(headers) cells
DataFrameRaises(rows, columns) == Widest(rows) # columns

\* a table: its number of columns and the number of cells of each row
TableOf(columns, rows, file_path) ==
    [columns |-> columns, rows |-> rows, file_path |-> file_path]

EmptyTable(file_path) == TableOf(0, <<>>, file_path)

BS4_ERROR == "Error: BeautifulSoup requerido"

\* a call of _parse_html_excel(file_path)
InitTable ==
    /\ BatchIdle
    /\ CfgIdle
    /\ AppIdle
    /\ FindIdle
    /\ FileIdle
    /\ CleanIdle
    /\ DocIdle
    /\ tbl_pc = "find_table"
    /\ headers = 0
    /\ data_rows = <<>>
    /\ scanned = 0
    /\ table = NoTable

\* lines 767-783: import, read, soup.find('table', {'border': '1'})
FindTable ==
    /\ tbl_pc = "find_table"
    /\ \E outcome \in {"table", "no_table", "no_bs4", "raises"} :
         CASE outcome = "table" ->
                /\ tbl_pc' = "scan"
                /\ table' = table
           [] outcome = "no_table" ->
                /\ tbl_pc' = "returned"
                /\ table' = EmptyTable(PATH)
           [] outcome = "no_bs4" ->
                /\ tbl_pc' = "returned"
                /\ table' = EmptyTable(BS4_ERROR)
           [] OTHER ->
                /\ tbl_pc' = "returned"
                /\ table' = EmptyTable(PARSE_ERROR)
    /\ UNCHANGED <<headers, data_rows, scanned>>
    /\ UNCHANGED others_table

\* lines 807-833: the body of the loop for one row
LoopBody(row) ==
    IF IsHeaderRow(row)
    THEN /\ headers' = row.n
         /\ data_rows' = data_rows
    ELSE /\ headers' = headers
         /\ data_rows' = IF IsDataRow(row)
                         THEN Append(data_rows, Keep(row, headers))
                         ELSE data_rows

\* lines 806-833: one pass of the loop over the rows
ScanRow ==
    /\ tbl_pc = "scan"
    /\ scanned < MaxTableRows
    /\ scanned' = scanned + 1
    /\ \E row \in HtmlRows : LoopBody(row)
    /\ UNCHANGED <<tbl_pc, table>>
    /\ UNCHANGED others_table

\* lines 835-864: after the last row; _clean_accounting_data may drop the
\* FECHA column when no row holds a date (dropna(axis = 1, how = 'all'))
BuildTable ==
    /\ tbl_pc = "scan"
    /\ tbl_pc' = "returned"
    /\ IF data_rows = <<>>
       THEN table' = EmptyTable(PATH)
       ELSE IF DataFrameRaises(data_rows, KeptColumns(headers))
       THEN table' = EmptyTable(PARSE_ERROR)
       ELSE \E dropped \in {0, 1} :
              /\ dropped = 1 =>
                    \A i \in DOMAIN data_rows : data_rows[i].first # "date"
              /\ table' = TableOf(KeptColumns(headers) - dropped,
                                  [i \in DOMAIN data_rows |->
                                      KeptColumns(headers) - dropped],
                                  PATH)
    /\ UNCHANGED <<headers, data_rows, scanned>>
    /\ UNCHANGED others_table

NextTable ==
    \/ FindTable
    \/ ScanRow
    \/ BuildTable

SpecTable == InitTable /\ [][NextTable]_vars

\* ------------------------------------------------ one row after the header
\* The body of the loop (lines 821-833) for a given row, the header row
\* having been found before.

\* numbers of cells of the header row found
HeaderCounts == {n \in CellCounts : n > MinHeaderCells}

InitRows ==
    /\ BatchIdle
    /\ CfgIdle
    /\ FindIdle
    /\ FileIdle
    /\ CleanIdle
    /\ DocIdle
    /\ DateIdle
    /\ DownloadsIdle
    /\ AccountsIdle
    /\ PageIdle
    /\ tbl_pc = "scan"
    /\ headers \in HeaderCounts
    /\ data_rows = <<>>
    /\ scanned = 0
    /\ table = NoTable
    /\ current_row \in HtmlRows

\* lines 821-833 for current_row
ScanCurrentRow ==
    /\ tbl_pc = "scan"
    /\ current_row # NoTable
    /\ scanned = 0
    /\ scanned' = 1
    /\ LoopBody(current_row)
    /\ UNCHANGED <<tbl_pc, table>>
    /\ UNCHANGED others_table

NextRows == ScanCurrentRow

SpecRows == InitRows /\ [][NextRows]_vars

\* ------------------------------------------------ _clean_accounting_data
\* Largest number of rows of the table that is cleaned.
MaxCleanRows == 2

Digits == {"0", "1", "2", "3", "4", "5", "6", "7", "8", "9"}

\* cell texts, character by character: '1234', '1.5', '-50', '$1.234,56-',
\* 'abc' and the empty text
CellTexts ==
    {<<"1", "2", "3", "4">>,
     <<"1", ".", "5">>,
     <<"-", "5", "0">>,
     <<"$", "1", ".", "2", "3", "4", ",", "5", "6", "-">>,
     <<"a", "b", "c">>,
     <<>>}

\* the column names of the tables cleaned; a table is shown by its money
\* columns and at most one other column, the columns cleaning leaves alone
\* being of no account
HeaderLists ==
    {<<"DEBE">>, <<"GLOSA", "SALDO">>, <<"DEBE", "HABER">>,
     <<"HABER", "SALDO">>, <<"DEBE", "DEBE">>}

\* line 914
numeric_columns == {"DEBE", "HABER", "SALDO"}

\* the cells of a table: raw text, a number, the missing value
Text(t) == [text |-> t]
Number(t) == [number |-> t]
NaN == [nan |-> TRUE]
Zero == Number(<<"0">>)

\* line 918: str.replace(r'[^\d.,\-]', '', regex = True)
StripNonNumeric(t) ==
    SelectSeq(t, LAMBDA c : c \in Digits \cup {".", ",", "-"})

\* the texts pd.to_numeric reads as a number: an optional sign, digits with
\* at most one decimal point, at least one digit
IsFloatLiteral(t) ==
    LET body == IF t # <<>> /\ Head(t) = "-" THEN Tail(t) ELSE t
    IN  /\ \A i \in DOMAIN body : body[i] \in Digits \cup {"."}
        /\ \E i \in DOMAIN body : body[i] \in Digits
        /\ Cardinality({i \in DOMAIN body : body[i] = "."}) <= 1

\* line 920: pd.to_numeric(errors = 'coerce')
to_numeric(t) == IF IsFloatLiteral(t) THEN Number(t) ELSE NaN

fillna(v, d) == IF v = NaN THEN d ELSE v

\* lines 918-920 on one cell
CleanCell(cell) == fillna(to_numeric(StripNonNumeric(cell.text)), Zero)

\* the positions of the columns named col
ColumnsNamed(d, col) == {i \in DOMAIN d.columns : d.columns[i] = col}

\* line 918: df[col] of a name that several columns bear is a table, which
\* has no .str accessor: AttributeError
CleaningRaises(d) ==
    \E col \in numeric_columns : Cardinality(ColumnsNamed(d, col)) > 1

\* _clean_accounting_data; on an exception the table is returned as it came
_clean_accounting_data(d) ==
    IF CleaningRaises(d) THEN d
    ELSE [columns |-> d.columns,
          rows |-> [r \in DOMAIN d.rows |->
                      [i \in DOMAIN d.columns |->
                          IF d.columns[i] \in numeric_columns
                          THEN CleanCell(d.rows[r][i])
                          ELSE d.rows[r][i]]]]

\* the tables of text cells with the given column names
RawTables(columns) ==
    {[columns |-> columns, rows |-> rows] :
        rows \in UNION {[1..k -> [DOMAIN columns -> {Text(t) : t \in CellTexts}]] :
                          k \in 1..MaxCleanRows}}

\* a call of _clean_accounting_data(df) on the table built at line 846
InitClean ==
    /\ BatchIdle
    /\ CfgIdle
    /\ AppIdle
    /\ FindIdle
    /\ FileIdle
    /\ TableIdle
    /\ DocIdle
    /\ clean_pc = "call"
    /\ raw_df \in UNION {RawTables(columns) : columns \in HeaderLists}
    /\ cleaned_df = NoTable

CleanAccountingData ==
    /\ clean_pc = "call"
    /\ clean_pc' = "returned"
    /\ cleaned_df' = _clean_accounting_data(raw_df)
    /\ UNCHANGED raw_df
    /\ UNCHANGED others_clean

NextClean == CleanAccountingData

SpecClean == InitClean /\ [][NextClean]_vars

\* ------------------------------- NuboxMongoClient._prepare_report_document
\* Largest number of rows of the table that is exported.
MaxDocRows == 2

DateColumns == {"FECHA"}
StringColumns == {"COMPROBANTE", "GLOSA", "C.C."}
MoneyColumns == {"DEBE", "HABER", "SALDO"}
SchemaColumns == DateColumns \cup StringColumns \cup MoneyColumns

\* What a cell of a column may hold: a date column a Timestamp, a text such
\* as '31/01/2025', another text or a null; a string column a text or a
\* null; a money column a number, NaN (the null of a float column) or None
\* (the null of an object column).
CellsOf(col) ==
    IF col \in DateColumns THEN {"Timestamp", "dd/mm/yyyy", "text", "NaT"}
    ELSE IF col \in StringColumns THEN {"text", "None"}
    ELSE {"number", "NaN", "None"}

\* pd.notna(value)
notna(value) == value \notin {"NaT", "NaN", "None"}

\* the cells of a row under a column name; "absent" when the table has no
\* such column
CellsIn(col, columns) == IF col \in columns THEN CellsOf(col) ELSE {"absent"}

\* the rows a table with these columns may hold
RowsOf(columns) ==
    {[c \in SchemaColumns |->
        CASE c = "FECHA" -> fecha
          [] c = "COMPROBANTE" -> comprobante
          [] c = "GLOSA" -> glosa
          [] c = "DEBE" -> debe
          [] c = "HABER" -> haber
          [] c = "SALDO" -> saldo
          [] OTHER -> cc] :
        fecha \in CellsIn("FECHA", columns),
        comprobante \in CellsIn("COMPROBANTE", columns),
        glosa \in CellsIn("GLOSA", columns),
        debe \in CellsIn("DEBE", columns),
        haber \in CellsIn("HABER", columns),
        saldo \in CellsIn("SALDO", columns),
        cc \in CellsIn("C.C.", columns)}

\* lines 160-202: the field made from a cell, shown by its type
FieldOf(col, value) ==
    IF col \in DateColumns
    THEN IF notna(value)
         THEN IF value \in {"dd/mm/yyyy", "text"} THEN "datetime"
              ELSE IF value = "Timestamp" THEN "datetime" ELSE value
         ELSE "datetime"
    ELSE IF col \in StringColumns THEN "str"
    ELSE "float"

\* lines 206-214: the value given to a required field that is missing
DefaultOf(field) ==
    IF field = "fecha" THEN "datetime"
    ELSE IF field \in {"debe", "haber", "saldo"} THEN "float"
    ELSE "str"

\* the field of the schema made from a column
FieldName(col) ==
    CASE col = "FECHA" -> "fecha"
      [] col = "COMPROBANTE" -> "comprobante"
      [] col = "GLOSA" -> "glosa"
      [] col = "DEBE" -> "debe"
      [] col = "HABER" -> "haber"
      [] col = "SALDO" -> "saldo"
      [] OTHER -> "c.c."

\* line 205
required_fields ==
    {"fecha", "comprobante", "glosa", "debe", "haber", "saldo", "c.c."}

\* lines 155-216: the movement made from one row
EntryOf(columns, row) ==
    [f \in required_fields |->
        IF \E c \in columns : FieldName(c) = f
        THEN LET c == CHOOSE c \in columns : FieldName(c) = f
             IN  FieldOf(c, row[c])
        ELSE DefaultOf(f)]

\* line 222: float(df['SALDO'].iloc[-1]) raises TypeError on None
TotalsRaise(d) ==
    /\ "SALDO" \in d.columns
    /\ d.rows > 0
    /\ d.last["SALDO"] = "None"

\* A call of _prepare_report_document(df, ...).  The table is shown by its
\* column names, the number of rows already iterated and the last of them;
\* the rows iterated are kept as the movements made from them.
InitDoc ==
    /\ BatchIdle
    /\ CfgIdle
    /\ AppIdle
    /\ FindIdle
    /\ FileIdle
    /\ TableIdle
    /\ CleanIdle
    /\ doc_pc = "call"
    /\ \E columns \in SUBSET SchemaColumns :
         doc_df = [columns |-> columns, rows |-> 0, last |-> <<>>]
    /\ accounting_entries = <<>>
    /\ document = NoTable

\* lines 154-216: one pass of `for _, row in df.iterrows()`
PrepareRow ==
    /\ doc_pc = "call"
    /\ doc_df.rows < MaxDocRows
    /\ \E row \in RowsOf(doc_df.columns) :
         /\ doc_df' = [doc_df EXCEPT !.rows = @ + 1, !.last = row]
         /\ accounting_entries' =
               Append(accounting_entries, EntryOf(doc_df.columns, row))
    /\ UNCHANGED <<doc_pc, document>>
    /\ UNCHANGED others_doc

\* lines 218-297: totals, period, parameters and the document
BuildDocument ==
    /\ doc_pc = "call"
    /\ IF TotalsRaise(doc_df)
       THEN /\ doc_pc' = "raised"
            /\ document' = document
       ELSE /\ doc_pc' = "returned"
            /\ document' =
                  [movimientos |-> accounting_entries,
                   total_movimientos |-> doc_df.rows,
                   total_registros |-> Len(accounting_entries),
                   columnas_extraidas |-> doc_df.columns]
    /\ UNCHANGED <<doc_df, accounting_entries>>
    /\ UNCHANGED others_doc

NextDoc ==
    \/ PrepareRow
    \/ BuildDocument

SpecDoc == InitDoc /\ [][NextDoc]_vars

\* ------------------------------------------------------------ date ranges
\* src/utils/date_utils.py and ReportExtractor.extract_report_process of
\* src/core/extraction.py. A date is a record of year, month and day.

\* the number of consecutive years the two dates are drawn from
MaxYears == 2

\* datetime.MAXYEAR: the last year a date can hold
MAXYEAR == 9999

\* the default of min_days_for_monthly (line 83)
min_days_for_monthly == 32

Years == (2024..(2023 + MaxYears)) \cup {MAXYEAR}

\* the days of the month the dates are drawn from
Days == {1, 2, 28, 31}

IsLeap(y) == (y % 4 = 0) /\ ((y % 100 # 0) \/ (y % 400 = 0))

\* calendar.monthrange(y, m)[1]: the number of days of a month
monthrange(y, m) ==
    IF m = 2 THEN (IF IsLeap(y) THEN 29 ELSE 28)
    ELSE IF m \in {4, 6, 9, 11} THEN 30 ELSE 31

Dates == {d \in [year : Years, month : 1..12, day : Days] : d.day <= monthrange(d.year, d.month)}

DaysBeforeYear(y) == (y - 1) * 365 + ((y - 1) \div 4) - ((y - 1) \div 100) + ((y - 1) \div 400)

RECURSIVE DaysBeforeMonth(_, _)
DaysBeforeMonth(y, m) ==
    IF m = 1 THEN 0 ELSE DaysBeforeMonth(y, m - 1) + monthrange(y, m - 1)

\* date.toordinal()
toordinal(d) == DaysBeforeYear(d.year) + DaysBeforeMonth(d.year, d.month) + d.day

\* a < b on dates
Before(a, b) == toordinal(a) < toordinal(b)

\* delta.days of line 95
delta_days(desde, hasta) == toordinal(hasta) - toordinal(desde)

should_use_monthly_extraction(desde, hasta) ==
    delta_days(desde, hasta) >= min_days_for_monthly

\* d + relativedelta(months=1) raises ValueError: the year would pass MAXYEAR
AddMonthRaises(d) == d.month = 12 /\ d.year = MAXYEAR

\* d + relativedelta(months=1): the same day of the next month, or that
\* month's last day when it is shorter
AddMonth(d) ==
    LET y == IF d.month = 12 THEN d.year + 1 ELSE d.year
        m == IF d.month = 12 THEN 1 ELSE d.month + 1
    IN  [year |-> y, month |-> m,
         day |-> IF d.day <= monthrange(y, m) THEN d.day ELSE monthrange(y, m)]

ClipNever(next_month, hasta) == next_month

\* lines 40-41: the end of a range never passes fecha_hasta
Clip(next_month, hasta) ==
    IF Before(hasta, next_month) THEN hasta ELSE next_month

\* the pairs of dates a call is made with (either order, equal dates too)
DatePairs == {p \in Dates \X Dates : p[2].year - p[1].year < MaxYears /\ p[1].year - p[2].year < MaxYears}

InitDates ==
    /\ BatchIdle
    /\ CfgIdle
    /\ FindIdle
    /\ FileIdle
    /\ TableIdle
    /\ CleanIdle
    /\ DocIdle
    /\ DownloadsIdle
    /\ AccountsIdle
    /\ RowIdle
    /\ PageIdle
    /\ date_pc = "start"
    /\ \E p \in DatePairs : date_desde = p[1] /\ date_hasta = p[2]
    /\ use_monthly = None
    /\ current_date = NoTable
    /\ monthly_ranges = <<>>

\* extract_report_process, lines 25-41: the mode is chosen; the monthly mode
\* calls generate_monthly_date_ranges (line 54)
ExtractReportProcess ==
    /\ date_pc = "start"
    /\ LET monthly == should_use_monthly_extraction(date_desde, date_hasta) IN
         /\ use_monthly' = IF monthly THEN "True" ELSE "False"
         /\ date_pc' = IF monthly THEN "generating" ELSE "standard"
         /\ current_date' = IF monthly THEN date_desde ELSE current_date
    /\ UNCHANGED <<date_desde, date_hasta, monthly_ranges>>
    /\ UNCHANGED others_date

\* generate_monthly_date_ranges called by itself, lines 30-31
GenerateMonthlyDateRanges ==
    /\ date_pc = "start"
    /\ date_pc' = "generating"
    /\ current_date' = date_desde
    /\ UNCHANGED <<date_desde, date_hasta, use_monthly, monthly_ranges>>
    /\ UNCHANGED others_date

\* one turn of the loop of lines 35-46
AppendRange ==
    /\ date_pc = "generating"
    /\ Before(current_date, date_hasta)
    /\ ~AddMonthRaises(current_date)
    /\ LET next_month == Clip(AddMonth(current_date), date_hasta) IN
         /\ monthly_ranges' = Append(monthly_ranges, <<current_date, next_month>>)
         /\ current_date' = next_month
    /\ UNCHANGED <<date_pc, date_desde, date_hasta, use_monthly>>
    /\ UNCHANGED others_date

\* lines 51-53: the addition of line 37 raised, the original range is returned
Fallback ==
    /\ date_pc = "generating"
    /\ Before(current_date, date_hasta)
    /\ AddMonthRaises(current_date)
    /\ monthly_ranges' = <<<<date_desde, date_hasta>>>>
    /\ date_pc' = "returned"
    /\ UNCHANGED <<date_desde, date_hasta, use_monthly, current_date>>
    /\ UNCHANGED others_date

\* lines 48-49: the loop is over
ReturnRanges ==
    /\ date_pc = "generating"
    /\ ~Before(current_date, date_hasta)
    /\ date_pc' = "returned"
    /\ UNCHANGED <<date_desde, date_hasta, use_monthly, current_date, monthly_ranges>>
    /\ UNCHANGED others_date

NextDates ==
    \/ ExtractReportProcess
    \/ GenerateMonthlyDateRanges
    \/ AppendRange
    \/ Fallback
    \/ ReturnRanges

SpecDates == InitDates /\ [][NextDates]_vars

\* ------------------------------------------------ downloads of a batch
\* The downloads folder during extract_multiple_reports: for each account
\* the report is generated (the browser may or may not save a file), then
\* extract_report waits and _find_and_process_downloaded_file chooses a file
\* (lines 475-498); a rejection for generic HTML writes the dump of line 595.

\* Largest number of accounts of the batch.
MaxAccounts == 3

\* seconds that pass between the creation of a download and its discovery:
\* line 58 sleeps 10 s; a slow site takes longer
Waits == {10, 70, 130}

Absent == [end_char |-> 0, end_byte |-> 0]

\* a download that is the vendor's report
VendorExport ==
    [xmlns |-> [end_char |-> 60, end_byte |-> 60], xtag |-> Absent,
     libro |-> TRUE, border |-> TRUE, sig |-> FALSE, html |-> TRUE,
     err |-> FALSE, sep |-> TRUE, body |-> "rows", rows |-> 10]

\* a download that is an error page of the site
ErrorPage ==
    [xmlns |-> Absent, xtag |-> Absent, libro |-> FALSE, border |-> FALSE,
     sig |-> FALSE, html |-> TRUE, err |-> TRUE, sep |-> TRUE,
     body |-> "unreadable", rows |-> 0]

Downloaded == {VendorExport, ErrorPage}

\* the program itself, as the writer of a folder entry
PROGRAM == 0

\* an entry of the folder: the fields of DirEntries, the account whose
\* generate action saved it (PROGRAM for line 595) and its content
SavedEntry(ctime, by, content) ==
    [xls |-> TRUE, ctime |-> ctime, by |-> by, content |-> content]

\* line 595: the dump's name is file_path + "_error_content.html"; the name
\* of the file chosen holds ".xls", so the dump matches "*.xls*" as well
DumpEntry(now, content) == SavedEntry(now, PROGRAM, content)

InitDownloads ==
    /\ BatchIdle
    /\ CfgIdle
    /\ FindIdle
    /\ FileIdle
    /\ TableIdle
    /\ CleanIdle
    /\ DocIdle
    /\ DateIdle
    /\ AccountsIdle
    /\ RowIdle
    /\ PageIdle
    /\ dl_pc = "generate"
    /\ dl_folder = <<>>
    /\ dl_clock = 0
    /\ dl_target = 1
    /\ handed = <<>>

\* lines 104-119 and 45-58: the report of the account is generated and
\* extract_report waits for the download
GenerateAndWait ==
    /\ dl_pc = "generate"
    /\ \E saved \in BOOLEAN, content \in Downloaded, wait \in Waits :
         /\ dl_folder' = IF saved
                         THEN Append(dl_folder, SavedEntry(dl_clock, dl_target, content))
                         ELSE dl_folder
         /\ dl_clock' = dl_clock + wait
    /\ dl_pc' = "discover"
    /\ UNCHANGED <<dl_target, handed>>
    /\ UNCHANGED others_dl

\* lines 475-498 and 571-597, then the loop of line 88 goes on
Discover ==
    /\ dl_pc = "discover"
    /\ LET recent == recent_files(dl_folder, dl_clock)
           chosen == IF recent = <<>> THEN 0
                          ELSE Head(SortByTimeDesc(dl_folder, recent))
       IN  /\ handed' = Append(handed, chosen)
           /\ IF chosen # 0 /\ DumpsContent(dl_folder[chosen].content)
              THEN \E written \in BOOLEAN :
                     dl_folder' = IF written
                                  THEN Append(dl_folder, DumpEntry(dl_clock, dl_folder[chosen].content))
                                  ELSE dl_folder
              ELSE dl_folder' = dl_folder
    /\ dl_pc' = IF dl_target < MaxAccounts THEN "generate" ELSE "done"
    /\ dl_target' = IF dl_target < MaxAccounts THEN dl_target + 1 ELSE dl_target
    /\ UNCHANGED dl_clock
    /\ UNCHANGED others_dl

NextDownloads ==
    \/ GenerateAndWait
    \/ Discover

SpecDownloads == InitDownloads /\ [][NextDownloads]_vars

\* ------------------------------------------------ the batch by account
\* extract_multiple_reports (lines 68-207). params is a dict; its values and
\* the dicts they refer to live in `heap`, so that a copy of params shares
\* the objects its values refer to, as dict.copy() does.

\* the accounts, by position in selected_accounts
AccountNames == <<"1101 Caja", "1102 Banco", "1103 Clientes", "1104 IVA", "1105 Otros">>

\* the dict objects the caller may pass as params['dropdown_selections']
InitialSelections ==
    {EmptyMap,
     Put(EmptyMap, "Empresa", "76.123.456-7 Empresa"),
     Put(EmptyMap, "Cuenta Contable", "1101 Caja")}

\* the reference of the dict the caller passes
CALLER_DICT == 1

\* a key that is not in the dict
NO_KEY == 0

\* _create_failed_result (lines 955-964)
_create_failed_result(error_message) ==
    [success |-> FALSE, error |-> error_message, data |-> 0, file_path |-> None]

\* lines 130-168: the result recorded for what extract_report returned
AccountRecordOf(report_data) ==
    IF RecordsSuccess(report_data[1], report_data[2])
    THEN SuccessResult(report_data[1], report_data[2])
    ELSE [success |-> FALSE, error |-> ERR_NODATA, data |-> 0,
          file_path |-> report_data[2]]

\* lines 150-155 and 181-186: the accounts after position i are marked failed
MarkRemainingAccounts(r, i, error_message) ==
    [x \in (DOMAIN r) \cup ((i + 1)..(accounts - 1)) |->
        IF x > i THEN _create_failed_result(error_message) ELSE r[x]]

\* lines 194-199; success_rate in whole percent
AccountsSummary(s, f) ==
    [total_accounts |-> accounts,
     successful_extractions |-> s,
     failed_extractions |-> f,
     success_rate |-> IF accounts > 0 THEN (s * 100) \div accounts ELSE 0]

\* a collaborator call, as logged
Call(name) == <<name, acct_i>>

\* line 93: account_params = params.copy(), a new dict with the same values
Copy(h, p) == [params |-> p, heap |-> h]

\* line 94: account_params.setdefault('dropdown_selections', {})
SetDefault(c) ==
    IF c.params.dropdown_selections # NO_KEY THEN c
    ELSE LET fresh == Cardinality(DOMAIN c.heap) + 1 IN
         [params |-> [dropdown_selections |-> fresh],
          heap |-> Put(c.heap, fresh, EmptyMap)]

\* line 95: account_params['dropdown_selections']['Cuenta Contable'] = account
SetAccount(c, account) ==
    LET ref == c.params.dropdown_selections IN
    Put(c.heap, ref, Put(c.heap[ref], "Cuenta Contable", account))

InitAccounts ==
    /\ BatchIdle
    /\ CfgIdle
    /\ FindIdle
    /\ FileIdle
    /\ TableIdle
    /\ CleanIdle
    /\ DocIdle
    /\ DateIdle
    /\ DownloadsIdle
    /\ RowIdle
    /\ PageIdle
    /\ acct_pc = "loop"
    /\ accounts \in 0..MaxAccounts
    /\ acct_i = 0
    /\ acct_results = EmptyMap
    /\ acct_successful = 0
    /\ acct_failed = 0
    /\ acct_calls = <<>>
    /\ acct_returned = NotReturned
    /\ \E passed \in BOOLEAN, selections \in InitialSelections :
         /\ acct_params = [dropdown_selections |-> IF passed THEN CALLER_DICT ELSE NO_KEY]
         /\ heap = IF passed THEN Put(EmptyMap, CALLER_DICT, selections) ELSE EmptyMap
    /\ heap_at_call = heap

\* the end of the loop body: the next account
NextAccount ==
    /\ acct_pc' = "loop"
    /\ acct_i' = acct_i + 1

\* lines 170-188: the handler of one account, up to the recovery call
AccountExceptHandler ==
    /\ acct_results' = Put(acct_results, acct_i, _create_failed_result(ERR_EXC))
    /\ acct_failed' = acct_failed + 1
    /\ IF acct_i < accounts - 1
       THEN acct_pc' = "recover" /\ acct_i' = acct_i
       ELSE NextAccount

\* lines 88-111: one account up to the outcome of the configuration call
ConfigureAccount ==
    /\ acct_pc = "loop"
    /\ acct_i < accounts
    /\ heap' = SetAccount(SetDefault(Copy(heap, acct_params)), AccountNames[acct_i + 1])
    /\ acct_calls' = Append(acct_calls, Call("set_parameters_programmatic"))
    /\ \E config_success \in Outcomes :
         CASE config_success = TRUE_ ->
                /\ acct_pc' = "extract"
                /\ UNCHANGED <<acct_i, acct_results, acct_failed>>
           [] config_success = FALSE_ ->
                /\ acct_results' = Put(acct_results, acct_i, _create_failed_result(ERR_CONFIG))
                /\ acct_failed' = acct_failed + 1
                /\ NextAccount
           [] OTHER -> AccountExceptHandler
    /\ UNCHANGED <<accounts, acct_successful, acct_returned, acct_params, heap_at_call>>
    /\ UNCHANGED others_acct

\* lines 116-168: the extraction and the recording of its result
ExtractAccount ==
    /\ acct_pc = "extract"
    /\ acct_calls' = Append(acct_calls, Call("extract_report"))
    /\ \E report_data \in ExtractReturns :
         LET ok == RecordsSuccess(report_data[1], report_data[2]) IN
         /\ acct_results' = Put(acct_results, acct_i, AccountRecordOf(report_data))
         /\ acct_successful' = IF ok THEN acct_successful + 1 ELSE acct_successful
         /\ acct_failed' = IF ok THEN acct_failed ELSE acct_failed + 1
         /\ IF ok /\ acct_i < accounts - 1
            THEN acct_pc' = "click_mayor" /\ acct_i' = acct_i
            ELSE NextAccount
    /\ UNCHANGED <<accounts, acct_returned, acct_params, heap, heap_at_call>>
    /\ UNCHANGED others_acct

\* lines 144-146: click_mayor_link after a success, between two accounts
ClickMayorAccount ==
    /\ acct_pc = "click_mayor"
    /\ acct_calls' = Append(acct_calls, Call("click_mayor_link"))
    /\ \E mayor_click_success \in Outcomes :
         CASE mayor_click_success = TRUE_ ->
                /\ NextAccount
                /\ UNCHANGED <<acct_results, acct_failed>>
           [] mayor_click_success = FALSE_ ->
                /\ acct_pc' = "navigate"
                /\ UNCHANGED <<acct_i, acct_results, acct_failed>>
           [] OTHER -> AccountExceptHandler
    /\ UNCHANGED <<accounts, acct_successful, acct_returned, acct_params, heap, heap_at_call>>
    /\ UNCHANGED others_acct

\* lines 148-158: the alternative navigation and, when it fails too, the
\* marking of the remaining accounts
NavigateAccount ==
    /\ acct_pc = "navigate"
    /\ acct_calls' = Append(acct_calls, Call("navigate_to_report"))
    /\ \E nav_success \in Outcomes :
         CASE nav_success = TRUE_ ->
                /\ NextAccount
                /\ UNCHANGED <<acct_results, acct_failed>>
           [] nav_success = FALSE_ ->
                /\ acct_results' = MarkRemainingAccounts(acct_results, acct_i, ERR_NAV)
                /\ acct_failed' = acct_failed + (accounts - 1 - acct_i)
                /\ acct_pc' = "break"
                /\ acct_i' = acct_i
           [] OTHER -> AccountExceptHandler
    /\ UNCHANGED <<accounts, acct_successful, acct_returned, acct_params, heap, heap_at_call>>
    /\ UNCHANGED others_acct

\* lines 175-188: the recovery navigation of the handler; its returned value
\* is not looked at, only an exception ends the batch
RecoverAccount ==
    /\ acct_pc = "recover"
    /\ acct_calls' = Append(acct_calls, Call("navigate_to_report"))
    /\ \E nav \in Outcomes :
         IF nav = RAISES
         THEN /\ acct_results' = MarkRemainingAccounts(acct_results, acct_i, ERR_NAV_EXC)
              /\ acct_failed' = acct_failed + (accounts - 1 - acct_i)
              /\ acct_pc' = "break"
              /\ acct_i' = acct_i
         ELSE /\ NextAccount
              /\ UNCHANGED <<acct_results, acct_failed>>
    /\ UNCHANGED <<accounts, acct_successful, acct_returned, acct_params, heap, heap_at_call>>
    /\ UNCHANGED others_acct

\* lines 190-201: the summary is added and the results are returned
ReturnAccounts ==
    /\ \/ acct_pc = "loop" /\ acct_i >= accounts
       \/ acct_pc = "break"
    /\ acct_pc' = "done"
    /\ acct_returned' = [entries |-> acct_results,
                         summary |-> AccountsSummary(acct_successful, acct_failed)]
    /\ UNCHANGED <<accounts, acct_i, acct_results, acct_successful, acct_failed, acct_calls, acct_params, heap, heap_at_call>>
    /\ UNCHANGED others_acct

NextAccounts ==
    \/ ConfigureAccount
    \/ ExtractAccount
    \/ ClickMayorAccount
    \/ NavigateAccount
    \/ RecoverAccount
    \/ ReturnAccounts

SpecAccounts == InitAccounts /\ [][NextAccounts]_vars

\* ------------------------------------------------ the results page
\* The path of a standard extraction from the button of the page to the
\* lists of results: main (streamlit_app_refactored.py lines 83-112),
\* _process_standard_extraction and _process_multiple_reports
\* (core/extraction.py) and ui/pages/multiple_results.py. Names are
\* sequences of text pieces, so that a key is the text the code builds.

\* Largest number of companies, and of accounts, selected on the page.
MaxSelected == 2

CompanyNames == {<<"76.123.456-7, Uno">>, <<"77.654.321-0, Dos">>, <<"78.111.222-3, Tres">>}

AccountTexts == {<<"1101 Caja">>, <<"1102 Banco">>, <<"1103 Clientes">>}

\* line 251 of report_extractor.py: combination_key = f"{company} - {account}"
KeyText(company, account) == company \o <<" - ">> \o account

\* the keys of a batch by company and account
KeyTexts(companies, selected) ==
    {KeyText(company, account) : company \in companies, account \in selected}

\* the dicts the batch may return: an entry for some of the combinations,
\* each succeeded or failed, and the summary
BatchResults(companies, selected) ==
    UNION {[keys -> BOOLEAN] : keys \in SUBSET KeyTexts(companies, selected)}

\* core/extraction.py lines 121-123
is_multiple_processing == Cardinality(accounts_chosen) > 1 \/ Cardinality(companies_chosen) > 1

\* streamlit_app_refactored.py line 105
is_multiple_companies == Cardinality(companies_chosen) > 1

\* multiple_results.py lines 141-153
_separate_company_account_results(entries) ==
    [successful |-> {key \in DOMAIN entries : entries[key]},
     failed |-> {key \in DOMAIN entries : ~entries[key]}]

\* multiple_results.py lines 126-139
_separate_results(entries, selected) ==
    [successful |-> {account \in selected : account \in DOMAIN entries /\ entries[account]},
     failed |-> {account \in selected : account \in DOMAIN entries /\ ~entries[account]}]

InitPage ==
    /\ BatchIdle
    /\ CfgIdle
    /\ FindIdle
    /\ FileIdle
    /\ TableIdle
    /\ CleanIdle
    /\ DocIdle
    /\ DateIdle
    /\ DownloadsIdle
    /\ AccountsIdle
    /\ RowIdle
    /\ page_pc = "extract"
    /\ companies_chosen \in {c \in SUBSET CompanyNames : Cardinality(c) <= MaxSelected}
    /\ accounts_chosen \in {a \in SUBSET AccountTexts : Cardinality(a) <= MaxSelected}
    /\ result = NoTable
    /\ successful_results = {}
    /\ failed_results = {}

\* lines 83-88 of the page and _process_standard_extraction: a selection of
\* several companies or accounts is extracted by the batch by company and
\* account (_process_multiple_reports, lines 184-204), anything else as a
\* single report
ProcessStandardExtraction ==
    /\ page_pc = "extract"
    /\ accounts_chosen # {} \/ companies_chosen # {}
    /\ IF is_multiple_processing
       THEN \E entries \in BatchResults(companies_chosen, accounts_chosen) :
              result' = [kind |-> "multiple", entries |-> entries]
       ELSE result' = [kind |-> "single", entries |-> EmptyMap]
    /\ page_pc' = "show"
    /\ UNCHANGED <<companies_chosen, accounts_chosen, successful_results, failed_results>>
    /\ UNCHANGED others_page

\* lines 90-110 of the page: the result is shown by the function that fits
\* its type
ShowResult ==
    /\ page_pc = "show"
    /\ page_pc' = "shown"
    /\ LET lists == IF result.kind # "multiple"
                    THEN [successful |-> {}, failed |-> {}]
                    ELSE IF is_multiple_companies
                    THEN _separate_company_account_results(result.entries)
                    ELSE _separate_results(result.entries, accounts_chosen)
       IN  /\ successful_results' = lists.successful
           /\ failed_results' = lists.failed
    /\ UNCHANGED <<companies_chosen, accounts_chosen, result>>
    /\ UNCHANGED others_page

NextPage ==
    \/ ProcessStandardExtraction
    \/ ShowResult

SpecPage == InitPage /\ [][NextPage]_vars

Next ==
    \/ Start
    \/ Configure
    \/ Extract
    \/ ClickMayor
    \/ Navigate
    \/ Recover

Spec == Init /\ [][Next]_vars

\* ------------------------------------------------------------ properties
Entries == returned.entries

ReturnedSummary == returned.summary

Succeeded(e) == {k \in DOMAIN e : e[k].success}

Failed(e) == {k \in DOMAIN e : ~e[k].success}

\* the batch has returned after a call with well-formed params
BatchReturned == pc = "done" /\ params_ok

\* C1: when the batch returns, the result map holds one entry for each of the
\* m*n keys of the cross product, whatever the outcomes of the targets were.
C1_EveryTargetHasAnEntry ==
    BatchReturned => DOMAIN Entries = AllKeys

\* C2: a target's own failure never stops the batch: unless a recovery
\* navigation failed, every target of the cross product has been configured
\* when the batch returns.
C2_FailureDoesNotStopBatch ==
    (BatchReturned /\ ~nav_failed) => configured = AllKeys

\* C3: when click_mayor_link and then navigate_to_report fail after target k
\* of N, every target k+1..N gets the failed result with the navigation
\* error, none of them is configured or extracted, and the failed count of
\* the summary grows by N-k.
C3_NavigationAbortMarksRemaining ==
    [][(pc = "navigate" /\ abort_at' # abort_at) =>
          /\ pc' = "done"
          /\ \A k \in AllKeys :
               Ordinal(k) > combination_count =>
                 /\ k \in DOMAIN Entries'
                 /\ Entries'[k] = _create_failed_combination_result(ERR_NAV)
                 /\ k \notin configured'
                 /\ k \notin DOMAIN extracted'
          /\ \A k \in DOMAIN results : Entries'[k] = results[k]
          /\ ReturnedSummary'.failed_extractions =
                failed_extractions + (total_combinations - combination_count)
          /\ Cardinality(Failed(Entries')) >=
                total_combinations - combination_count]_vars

\* C3 witness: a 2 x 2 batch aborted by the navigation after its first target
C3_Witness ==
    /\ pc = "done"
    /\ selected_companies = 2
    /\ selected_accounts = 2
    /\ abort_at = 1
    /\ Entries[<<0, 0>>].success

\* C4: when the batch returns, the summary agrees with the result map.
C4_SummaryAgreesWithResults ==
    BatchReturned =>
      /\ ReturnedSummary.successful_extractions =
            Cardinality(Succeeded(Entries))
      /\ ReturnedSummary.failed_extractions = Cardinality(Failed(Entries))
      /\ ReturnedSummary.successful_extractions
            + ReturnedSummary.failed_extractions
         = ReturnedSummary.total_combinations

\* the extraction of the current combination has just been recorded
JustExtracted ==
    /\ last_extract # NoExtract
    /\ \/ pc = "click_mayor"
       \/ pc = "done" /\ combination_count = total_combinations

\* C5: an artifact rejected by the parser (invalid payload, or a file no
\* reading strategy can read) is recorded with success = false and an error.
C5_RejectedArtifactIsFailure ==
    (JustExtracted /\ last_extract[2] \in {INVALID, READ_ERROR}) =>
      /\ ~results[combination_key].success
      /\ results[combination_key].error # None

\* C6: a valid artifact that parses to an empty table is recorded as succeeded
\* with rows_count 0 and is counted as succeeded; companies [A, B] and
\* accounts [X] with artifacts of 10 and 0 rows give keys 'A - X', 'B - X'
\* and the summary total 2, succeeded 2, failed 0, success rate 100.
C6_EmptyTableSucceeds ==
    /\ (JustExtracted /\ last_extract = <<0, PATH>>) =>
         /\ results[combination_key] = SuccessResult(0, PATH)
         /\ results[combination_key].rows_count = 0
         /\ successful_extractions >= 1
    /\ successful_extractions >= Cardinality(Succeeded(results))
    /\ (/\ pc = "done"
        /\ selected_companies = 2
        /\ selected_accounts = 1
        /\ DOMAIN extracted = AllKeys
        /\ extracted[<<0, 0>>] = <<10, PATH>>
        /\ extracted[<<1, 0>>] = <<0, PATH>>) =>
         /\ DOMAIN Entries = {<<0, 0>>, <<1, 0>>}
         /\ Entries[<<0, 0>>] = SuccessResult(10, PATH)
         /\ Entries[<<1, 0>>] = SuccessResult(0, PATH)
         /\ ReturnedSummary =
               [total_combinations |-> 2, successful_extractions |-> 2,
                failed_extractions |-> 0, success_rate |-> 100]

\* C6 witness: the documented example has run
C6_Witness ==
    /\ pc = "done"
    /\ selected_companies = 2
    /\ selected_accounts = 1
    /\ DOMAIN extracted = AllKeys
    /\ extracted[<<0, 0>>] = <<10, PATH>>
    /\ extracted[<<1, 0>>] = <<0, PATH>>

\* the key that follows k in the cross product
NextKey(k) ==
    IF k[2] + 1 < selected_accounts THEN <<k[1], k[2] + 1>>
    ELSE <<k[1] + 1, 0>>

\* C7: a target for which no file materialises is recorded as failed with an
\* empty dataset and no artifact path, and the batch goes on to the next
\* target (unless a recovery navigation failed).
C7_NoArtifactFailsAndBatchGoesOn ==
    BatchReturned =>
      \A k \in DOMAIN extracted :
        extracted[k] = <<0, NOT_FOUND>> =>
          /\ k \in DOMAIN Entries
          /\ ~Entries[k].success
          /\ Entries[k].data = 0
          /\ Entries[k].file_path = None
          /\ (Ordinal(k) < total_combinations /\ ~nav_failed)
                => NextKey(k) \in configured

\* C8: whatever the collaborators do, the batch never raises to its caller
\* and returns a map with a '_summary' entry; it is never stuck before that.
C8_AlwaysReturnsSummary ==
    /\ pc = "done" => (~raised /\ "summary" \in DOMAIN returned)
    /\ pc \notin {"done", "idle"} => ENABLED Next

\* C8 witness: every target failed, collaborators raised, the recovery
\* navigation raised too
C8_Witness ==
    /\ pc = "done"
    /\ total_combinations >= 2
    /\ Succeeded(Entries) = {}
    /\ \E k \in DOMAIN Entries : Entries[k].error = ERR_EXC
    /\ \E k \in DOMAIN Entries : Entries[k].error = ERR_NAV_EXC

\* ---- the configuration call
SettingKinds == {"dropdown", "desde", "hasta"}

SomeSettingNotApplied ==
    \E i \in DOMAIN ui_log :
        ui_log[i].kind \in SettingKinds /\ ~ui_log[i].applied

GenerateInvoked == \E i \in DOMAIN ui_log : ui_log[i].kind = "generate"

\* C9: set_parameters_programmatic invokes the generate action only when the
\* configuration succeeded: if a selection or a date could not be applied the
\* button is not clicked and the call reports failure.
C9_GenerateOnlyAfterConfigured ==
    (cfg_mode = "programmatic" /\ SomeSettingNotApplied) =>
      /\ ~GenerateInvoked
      /\ cfg_pc = "returned" => cfg_result = FALSE_

Rank(kind) ==
    CASE kind = "dropdown" -> 1
      [] kind = "desde" -> 2
      [] kind = "hasta" -> 3
      [] OTHER -> 4

\* C10: within one configuration call every dropdown is set before the
\* 'Desde' date, the 'Hasta' date follows and the generate click comes last;
\* no dropdown is set after a date.
C10_DropdownsBeforeDates ==
    \A i, j \in DOMAIN ui_log :
        i < j =>
          /\ Rank(ui_log[i].kind) <= Rank(ui_log[j].kind)
          /\ ui_log[j].kind # "dropdown"
                => Rank(ui_log[i].kind) < Rank(ui_log[j].kind)

\* C10 witness: a call that set two dropdowns, both dates and clicked generate
C10_Witness ==
    /\ cfg_pc = "returned"
    /\ cfg_mode = "programmatic"
    /\ Len(ui_log) >= 5
    /\ ui_log[1].kind = "dropdown"
    /\ ui_log[2].kind = "dropdown"
    /\ \E i \in DOMAIN ui_log : ui_log[i].kind = "desde"
    /\ \E i \in DOMAIN ui_log : ui_log[i].kind = "hasta"
    /\ ui_log[Len(ui_log)].kind = "generate"

\* ---- the order of the targets
\* a collaborator of the current target is being called
InTargetCall == pc \in {"extract", "click_mayor", "navigate", "recover"}

\* C11: targets are processed one at a time in cross-product order (companies
\* outside, accounts inside): the configured targets are always the first
\* combination_count keys of the cross product, a target is configured only
\* when every earlier target has its result recorded, and the extraction and
\* navigation calls are made for the latest configured target only.
C11_OneTargetAtATimeInOrder ==
    (params_ok /\ pc \notin {"start", "idle"}) =>
      /\ configured = {k \in AllKeys : Ordinal(k) <= combination_count}
      /\ DOMAIN extracted \subseteq configured
      /\ pc = "config" =>
            /\ combination_key \in AllKeys
            /\ Ordinal(combination_key) = combination_count + 1
            /\ \A k \in AllKeys :
                 Ordinal(k) <= combination_count => k \in DOMAIN results
      /\ InTargetCall =>
            /\ Ordinal(combination_key) = combination_count
            /\ \A k \in AllKeys :
                 Ordinal(k) < combination_count => k \in DOMAIN results
            /\ \A k \in DOMAIN extracted :
                 Ordinal(k) <= combination_count

\* C11 witness: a 2 x 2 batch about to configure the first account of its
\* second company, after both accounts of the first one
C11_Witness ==
    /\ params_ok
    /\ pc = "config"
    /\ selected_companies = 2
    /\ selected_accounts = 2
    /\ combination_key = <<1, 0>>
    /\ configured = {<<0, 0>>, <<0, 1>>}
    /\ DOMAIN results = {<<0, 0>>, <<0, 1>>}

\* C12: when the configuration of a target reports failure the target is
\* recorded as failed, no extraction and no navigation call is made for it,
\* and the batch goes on to configure the next target.
C12_ConfigFailureSkipsToNextTarget ==
    params_ok =>
      \A k \in DOMAIN results :
        results[k].error = ERR_CONFIG =>
          /\ ~results[k].success
          /\ k \in configured
          /\ k \notin DOMAIN extracted
          /\ (k = combination_key /\ pc # "done") => pc = "config"
          /\ (pc = "done" /\ Ordinal(k) < total_combinations /\ ~nav_failed)
                => NextKey(k) \in configured

\* C13: once the recovery navigation made after a target failed with an
\* exception has reported failure (returned False or raised), no further
\* target is attempted: the batch ends, the remaining targets are marked
\* failed and none of them is configured.
C13_FailedRecoveryEndsBatch ==
    [][(pc = "recover" /\ ~nav_failed /\ nav_failed') =>
          /\ pc' = "done"
          /\ configured' = configured
          /\ \A k \in AllKeys :
               Ordinal(k) > combination_count =>
                 /\ k \in DOMAIN results'
                 /\ ~results'[k].success]_vars

\* ---- artifact discovery
\* the entries that match the spreadsheet glob and are younger than 120 s
Qualifying ==
    {i \in DOMAIN downloads :
        downloads[i].xls /\ current_time - downloads[i].ctime < RecentSeconds}

FirstRunDone == runs # <<>>

\* no vendor indicator of _validate_excel_file is in the first 512 bytes
NoVendorIndicator(f) == ~is_nubox_html_excel(f)

\* C15 (as claimed): a payload that holds the namespace marker
\* xmlns:x="urn:schemas-microsoft-com:office:excel" is accepted, classified
\* as HTML-disguised spreadsheet and parsed by the HTML table parser; a
\* payload with an <html> tag and no such marker is rejected as generic HTML.
C15_NamespaceMarkerDecides ==
    FirstRunDone =>
      /\ payload.xmlns.end_char > 0 =>
            /\ runs[1].valid
            /\ runs[1].html_excel
            /\ runs[1].parser = "html"
      /\ (payload.html /\ payload.xmlns.end_char = 0) =>
            /\ ~runs[1].valid
            /\ runs[1].reason = REASON_HTML

\* C15 (amended): a payload whose namespace marker lies inside both header
\* windows (the first 512 bytes and the first 500 characters) is accepted,
\* classified as HTML-disguised spreadsheet and parsed by the HTML table
\* parser; a payload with an <html> tag in its first 512 bytes that has
\* there none of the vendor indicators (the namespace marker,
\* <x:ExcelWorkbook>, <x:ExcelWorksheets>, 'LIBRO MAYOR DESDE') and does not
\* start with a spreadsheet signature is rejected as generic HTML.
C15_HeaderMarkerDecides ==
    FirstRunDone =>
      /\ (InHeaderBytes(payload.xmlns) /\ InHeaderChars(payload.xmlns)) =>
            /\ runs[1].valid
            /\ runs[1].html_excel
            /\ runs[1].parser = "html"
            /\ runs[1].report = _parse_html_excel(payload)
      /\ (payload.html /\ NoVendorIndicator(payload) /\ ~payload.sig) =>
            /\ ~runs[1].valid
            /\ runs[1].reason = REASON_HTML
            /\ runs[1].report = <<0, INVALID>>

\* C15 witness: an HTML document with the namespace marker at its start and
\* no table marker in the window, parsed to the 10-row table
C15_Witness ==
    /\ FirstRunDone
    /\ payload.html
    /\ ~payload.border
    /\ payload.xmlns = [end_char |-> 60, end_byte |-> 60]
    /\ payload.xtag.end_char = 0
    /\ runs[1].parser = "html"
    /\ runs[1].report = <<10, PATH>>

\* the rejection reason that a returned file_path value names:
\* 'Error de lectura: <path>' names the unreadable file, 'Archivo invalido:
\* <path>' names no reason
ReasonNamedBy(file_path) ==
    IF file_path = READ_ERROR THEN REASON_UNREADABLE ELSE None

\* C16: when an artifact is rejected, the specific reason (generic HTML,
\* unreadable, error vocabulary) is carried in the value the parser returns
\* and in the error of the target's result.
C16_RejectionReasonIsCarried ==
    \A i \in DOMAIN runs :
        runs[i].reason # None =>
          /\ ReasonNamedBy(runs[i].report[2]) = runs[i].reason
          /\ ~RecordOf(runs[i].report).success
          /\ RecordOf(runs[i].report).error = runs[i].reason

\* C17: validating and reading the same artifact path twice gives the same
\* classification and the same parsed table, and the content of the source
\* file is changed by neither run.
C17_RunsAgreeAndSourceUnchanged ==
    file_pc # "idle" =>
      /\ artifact \in DOMAIN fs
      /\ fs[artifact] = payload
      /\ \A i, j \in DOMAIN runs : runs[i] = runs[j]

\* C17 witness: a rejected generic HTML page was run twice and its content
\* was dumped next to it
C17_Witness ==
    /\ Len(runs) = 2
    /\ ~runs[2].valid
    /\ error_file_path(artifact) \in DOMAIN fs
    /\ fs[error_file_path(artifact)] = payload

\* ---- the HTML table parser
\* C18: the table attached to a result is rectangular: every data row has
\* exactly as many cells as the table has columns, whatever the number of
\* header columns and of cells of the rows of the HTML table.
C18_TableIsRectangular ==
    tbl_pc # "idle" =>
      /\ \A i \in DOMAIN data_rows : data_rows[i].n = headers
      /\ tbl_pc = "returned" =>
            /\ \A i \in DOMAIN table.rows : table.rows[i] = table.columns
            /\ table.rows # <<>> =>
                  /\ Len(table.rows) = Len(data_rows)
                  /\ table.columns <= headers
                  /\ table.file_path = PATH

\* C18 witness: a table of two rows, one of which had more cells than the
\* header row
C18_Witness ==
    /\ tbl_pc = "returned"
    /\ headers = 6
    /\ Len(table.rows) = 2
    /\ table.columns = 6
    /\ data_rows[1].cells = 6
    /\ data_rows[2].cells = 7

\* ---- the cleaning of the money columns
IsNumber(cell) == DOMAIN cell = {"number"}

\* C19: after cleaning, every cell of the money columns DEBE, HABER and
\* SALDO is a number, text that cannot be read as a number has become 0, no
\* cell is left null or as raw text, and cleaning does not raise.
C19_MoneyCellsAreNumbers ==
    /\ clean_pc \in {"idle", "call", "returned"}
    /\ clean_pc = "returned" =>
         \A r \in DOMAIN cleaned_df.rows :
           \A i \in DOMAIN cleaned_df.columns :
             cleaned_df.columns[i] \in numeric_columns =>
               /\ IsNumber(cleaned_df.rows[r][i])
               /\ ~IsFloatLiteral(StripNonNumeric(raw_df.rows[r][i].text))
                     => cleaned_df.rows[r][i] = Zero

\* ---- the document handed to the store
\* C20: for any input table (any subset of the columns FECHA, COMPROBANTE,
\* GLOSA, DEBE, HABER, SALDO, C.C., any cells null) _prepare_report_document
\* yields a document in which every movement has the seven required fields
\* (fecha a date, debe, haber and saldo numbers, the others strings) and
\* metadata.total_registros = reporte.totales.total_movimientos = number of
\* movements = number of input rows.
C20_DocumentFollowsSchema ==
    /\ doc_pc # "raised"
    /\ doc_pc = "returned" =>
         /\ \A i \in DOMAIN document.movimientos :
              LET m == document.movimientos[i]
              IN  /\ DOMAIN m = required_fields
                  /\ m["fecha"] = "datetime"
                  /\ \A f \in {"debe", "haber", "saldo"} : m[f] = "float"
                  /\ \A f \in {"comprobante", "glosa", "c.c."} : m[f] = "str"
         /\ document.total_registros = doc_df.rows
         /\ document.total_movimientos = doc_df.rows
         /\ Len(document.movimientos) = doc_df.rows


\* C21: monthly extraction is chosen exactly when fecha_hasta - fecha_desde
\* is more than 32 days; a range of 32 days or less is extracted as one
\* standard report.
C21_MonthlyModeOnlyAbove32Days ==
    use_monthly # None =>
        ((use_monthly = "True") <=> (delta_days(date_desde, date_hasta) > 32))

\* the months from a to b are at most one: the same month, or the next month
\* and no later day of it
WithinOneMonth(a, b) ==
    LET months == (b.year * 12 + b.month) - (a.year * 12 + a.month) IN
    \/ months = 0
    \/ months = 1 /\ b.day <= a.day

\* each range starts before it ends, spans at most a month and starts where
\* the one before it ended; the first starts at fecha_desde
RangesChain(r) ==
    /\ Len(r) > 0 => r[1][1] = date_desde
    /\ \A i \in 1..(Len(r) - 1) : r[i + 1][1] = r[i][2]
    /\ \A i \in 1..Len(r) : Before(r[i][1], r[i][2]) /\ WithinOneMonth(r[i][1], r[i][2])

\* the list returned covers fecha_desde..fecha_hasta month by month
RangesAreMonthly ==
    /\ Len(monthly_ranges) > 0
    /\ RangesChain(monthly_ranges)
    /\ monthly_ranges[Len(monthly_ranges)][2] = date_hasta

\* the call returned through the except branch of lines 51-53
FellBack == date_pc = "returned" /\ Before(current_date, date_hasta)

\* C22 as stated: for fecha_desde < fecha_hasta the list returned is not
\* empty, starts at fecha_desde, ends at fecha_hasta, each range starts where
\* the one before ended, has start < end and spans at most one month.
C22_RangesCoverTheInterval ==
    (date_pc = "returned" /\ Before(date_desde, date_hasta)) => RangesAreMonthly

\* C22 amended: for fecha_desde < fecha_hasta the loop advances by ranges
\* that chain from fecha_desde, each with start < end and at most one month
\* long, never passing fecha_hasta, and the list returned is not empty and
\* ends at fecha_hasta; except when a range would start in December of the
\* last year of the calendar, where the single range (fecha_desde,
\* fecha_hasta) is returned.
C22_RangesCoverTheIntervalWithinCalendar ==
    (date_pc \in {"generating", "returned"} /\ Before(date_desde, date_hasta)) =>
        IF FellBack
        THEN monthly_ranges = <<<<date_desde, date_hasta>>>>
        ELSE /\ RangesChain(monthly_ranges)
             /\ ~Before(date_hasta, current_date)
             /\ Len(monthly_ranges) > 0 =>
                  current_date = monthly_ranges[Len(monthly_ranges)][2]
             /\ date_pc = "returned" => RangesAreMonthly

\* a call that returned three ranges or more, one of them ending on the
\* last day of a shorter month, the last one cut at fecha_hasta
C22_Witness ==
    /\ date_pc = "returned"
    /\ Before(date_desde, date_hasta)
    /\ ~FellBack
    /\ Len(monthly_ranges) >= 3
    /\ \E i \in 1..Len(monthly_ranges) : monthly_ranges[i][2].day < monthly_ranges[i][1].day
    /\ date_hasta.day # date_desde.day


\* C23: the file that discovery chooses for an account was saved by that
\* account's own generate action: never a file downloaded for an earlier
\* account of the batch, never a file the program wrote itself (the
\* '_error_content.html' dump).
C23_DiscoveryHandsOwnDownload ==
    \A i \in DOMAIN handed :
        handed[i] # 0 => dl_folder[handed[i]].by = i


\* ---- the batch by account
\* the calls that ask the navigation collaborator for the parameter screen
NavigationCalls == {"click_mayor_link", "navigate_to_report"}

\* C24: after an account whose extraction failed for lack of data or
\* artifact, while more accounts remain, the navigation collaborator is
\* asked to return to the parameter screen before the next account is
\* configured; no navigation is requested after the last account.
C24_NavigationAfterDataFailure ==
    /\ \A k \in DOMAIN acct_calls :
         LET i == acct_calls[k][2] IN
         (/\ acct_calls[k][1] = "set_parameters_programmatic"
          /\ i > 0
          /\ (i - 1) \in DOMAIN acct_results
          /\ acct_results[i - 1].error = ERR_NODATA)
         => \E j \in 1..(k - 1) :
              acct_calls[j][2] = i - 1 /\ acct_calls[j][1] \in NavigationCalls
    /\ \A k \in DOMAIN acct_calls :
         acct_calls[k][1] \in NavigationCalls => acct_calls[k][2] < accounts - 1

\* C29: the batch leaves the caller's params unchanged: after it returns,
\* params and its 'dropdown_selections' mapping hold what they held before
\* the call.
C29_CallerParamsUnchanged ==
    acct_pc = "done" =>
        \A ref \in DOMAIN heap_at_call : heap[ref] = heap_at_call[ref]


\* ---- the result map of the batch by company and account
\* a step writes no key of the result map a second time
WritesOnce ==
    \A k \in DOMAIN results : k \in DOMAIN results' /\ results'[k] = results[k]

\* a step that counts a failure counts it for a key that had no entry yet
CountsNewKey ==
    failed_extractions' > failed_extractions => DOMAIN results' # DOMAIN results

\* C25: during a batch the result map is append-only: each key is written
\* once, so an entry recorded as succeeded is never overwritten by a failed
\* one, and no target is counted both as successful and as failed.
C25_ResultMapIsAppendOnly == [][WritesOnce /\ CountsNewKey]_vars


\* ---- the two format checks
\* C26: the two format checks agree: whenever _validate_excel_file accepts a
\* file as a vendor HTML-Excel export, _is_html_excel_format is true for it
\* and _read_excel_file hands it to the HTML table parser.
C26_FormatChecksAgree ==
    (FirstRunDone /\ is_nubox_html_excel(payload)) =>
        /\ runs[1].valid
        /\ runs[1].html_excel
        /\ runs[1].parser = "html"


\* ---- the rows after the header
\* what the stated rule accepts: a date in the first cell, a RUT in the
\* third, or the opening balance or 'TOTAL' in the text of the row
AcceptedByRule(row) ==
    row.first = "date" \/ row.rut \/ row.marker \/ row.first = "TOTAL"

\* C27: after the header row has been found, a row (with at least as many
\* cells as the header) is accepted as a data row whenever its first cell is
\* a DD/MM/YYYY date, or its third cell is a RUT, or its text holds
\* 'ACUMULACION ANTERIOR' or 'TOTAL'; also when its first cell is empty or
\* begins with 'TOTAL'.
C27_RuleAcceptsRow ==
    (current_row # NoTable /\ scanned = 1 /\ current_row.n >= headers
        /\ AcceptedByRule(current_row))
    => /\ Len(data_rows) = 1
       /\ data_rows[1].first = current_row.first

\* C28: when the header row has more than 10 columns and valid data rows
\* follow, the table returned is not empty: it has the first 10 columns and
\* holds those data rows; it is not an empty table with a parsing error.
C28_WideHeaderKeepsTenColumns ==
    (tbl_pc = "returned" /\ headers > MaxColumnsKept /\ data_rows # <<>>) =>
        /\ table.file_path = PATH
        /\ Len(table.rows) = Len(data_rows)
        /\ table.columns \in {MaxColumnsKept - 1, MaxColumnsKept}


\* ---- the results page
\* C30: every entry of a batch result reaches the results page: with one
\* company and several accounts selected, each entry of the batch is listed
\* by the page either as successful or as failed, the succeeded ones as
\* successful (and so offered for export).
C30_EveryEntryIsShown ==
    (page_pc = "shown" /\ Cardinality(companies_chosen) = 1
        /\ Cardinality(accounts_chosen) > 1) =>
      /\ successful_results = {key \in DOMAIN result.entries : result.entries[key]}
      /\ failed_results = {key \in DOMAIN result.entries : ~result.entries[key]}

====
